---------------------------- MODULE Spec2Model ----------------------------
(***************************************************************************)
(* A model of the utility functions of stacks-utils: the address codec and *)
(* classifier (src/src/address.ts), the memo encoder and decoder           *)
(* (src/src/memo.ts), formatRelativeTime (src/src/format.ts), the cycle    *)
(* arithmetic of the stacking utilities, the BNS names and their prices    *)
(* (src/src/bns.ts), compareTokenAmounts (src/src/tokens.ts), the contract *)
(* identifiers and the status predicates of the transaction helpers.       *)
(*                                                                         *)
(* Every exported function is called with values and returns a value, so   *)
(* the state machine is a caller that makes one call after another: the    *)
(* state is the last call (its name, its arguments, what it returned or    *)
(* threw) and the module-level table ADDRESS_VERSION.  Two more variables  *)
(* serve the one function that reads the clock, formatRelativeTime: now,   *)
(* what Date.now() returns, and noted, a result the caller has written     *)
(* down to compare it with a later one.  Spec is the caller of the         *)
(* functions that do not read the clock; ClockSpec is the caller of        *)
(* formatRelativeTime while time passes.                                   *)
(*                                                                         *)
(* JavaScript strings are sequences of one-character strings.  A           *)
(* JavaScript value that may or may not be a string is a record            *)
(* [t, s, n]: its type tag, its characters (strings), its value (numbers). *)
(* A result is a record tagged by k: "bool", "null", "string", "info",     *)
(* "pair" (the library's [version, hash160]), "text", "parsed", "value",   *)
(* "cycleInfo", "parsedName", "contractId", "payload", "object" or         *)
(* "throw".  The status of a transaction, which is only ever compared, is  *)
(* a string of TLA+.                                                       *)
(*                                                                         *)
(* The c32check package that address.ts imports is modelled operation by   *)
(* operation (c32normalize, c32encode, c32decode, c32checkEncode,          *)
(* c32checkDecode, c32address, c32addressDecode).  Its checksum is the     *)
(* first four bytes of a double SHA-256; the model keeps its signature (a  *)
(* hex string of any length to eight hex digits) and replaces the hash by  *)
(* a small deterministic digest.                                           *)
(***************************************************************************)
EXTENDS Integers, Sequences, FiniteSets, TLC

VARIABLES op, args, ret, ADDRESS_VERSION, now, noted

vars == <<op, args, ret, ADDRESS_VERSION, now, noted>>

(***************************************************************************)
(* Bounds of the model.                                                    *)
(***************************************************************************)
\* hash160 samples Hash(0) .. Hash(NumHashes - 1)
NumHashes == 2
\* payloads of 0 .. MaxShortBytes bytes wrapped in a well-formed c32check string
MaxShortBytes == 2
\* startChars and endChars range over 0 .. MaxChars
MaxChars == 6
\* the clock is read up to MaxTicks * TickSeconds seconds after load
MaxTicks == 6
\* the seconds between two readings of the clock
TickSeconds == 15
\* messages run up to MAX_MEMO_LENGTH + MaxOverBytes UTF-8 bytes
MaxOverBytes == 4
\* up to MaxZeroBytes zero bytes are added to a hex string
MaxZeroBytes == 2
\* cycles 0 .. MaxCycles
MaxCycles == 3
\* names of 0 .. MaxPricedChars characters are priced
MaxPricedChars == 12

(***************************************************************************)
(* Characters and JavaScript string primitives.                            *)
(***************************************************************************)
c32 == <<"0","1","2","3","4","5","6","7","8","9","A","B","C","D","E","F",
         "G","H","J","K","M","N","P","Q","R","S","T","V","W","X","Y","Z">>

hex == <<"0","1","2","3","4","5","6","7","8","9","a","b","c","d","e","f">>

LOWER == <<"a","b","c","d","e","f","g","h","i","j","k","l","m",
           "n","o","p","q","r","s","t","u","v","w","x","y","z">>

UPPER == <<"A","B","C","D","E","F","G","H","I","J","K","L","M",
           "N","O","P","Q","R","S","T","U","V","W","X","Y","Z">>

Min(a, b) == IF a < b THEN a ELSE b

Max(a, b) == IF a > b THEN a ELSE b

Pow2(n) == 2 ^ n

\* String.prototype.indexOf for a single character: 0-based, -1 when absent
IndexOf(alphabet, ch) ==
    IF \E i \in 1..Len(alphabet) : alphabet[i] = ch
    THEN (CHOOSE i \in 1..Len(alphabet) : alphabet[i] = ch) - 1
    ELSE -1

UpperChar(ch) == IF IndexOf(LOWER, ch) >= 0 THEN UPPER[IndexOf(LOWER, ch) + 1] ELSE ch

LowerChar(ch) == IF IndexOf(UPPER, ch) >= 0 THEN LOWER[IndexOf(UPPER, ch) + 1] ELSE ch

\* a function on 1..n as a sequence
AsSeq(f) == SubSeq(f, 1, Len(f))

toUpperCase(s) == AsSeq([i \in 1..Len(s) |-> UpperChar(s[i])])

toLowerCase(s) == AsSeq([i \in 1..Len(s) |-> LowerChar(s[i])])

startsWith(s, prefix) ==
    Len(s) >= Len(prefix) /\ SubSeq(s, 1, Len(prefix)) = prefix

\* String.prototype.slice(begin, end): negative indexes count from the end
JsSlice(s, begin, end) ==
    LET n == Len(s)
        b == IF begin < 0 THEN Max(n + begin, 0) ELSE Min(begin, n)
        e == IF end < 0 THEN Max(n + end, 0) ELSE Min(end, n)
    IN  IF b >= e THEN <<>> ELSE SubSeq(s, b + 1, e)

\* String.prototype.slice(begin): to the end of the string
JsSliceFrom(s, begin) == JsSlice(s, begin, Len(s))

\* String.prototype.substring(start, end): negative indexes are 0, and the
\* two are swapped when start > end
JsSubstring(s, start, end) ==
    LET n == Len(s)
        a == Min(Max(start, 0), n)
        b == Min(Max(end, 0), n)
    IN  SubSeq(s, Min(a, b) + 1, Max(a, b))

(***************************************************************************)
(* JavaScript values and results.                                          *)
(***************************************************************************)
Str(s) == [t |-> "string", s |-> s, n |-> 0]

JsNull == [t |-> "null", s |-> <<>>, n |-> 0]

JsUndefined == [t |-> "undefined", s |-> <<>>, n |-> 0]

Num(n) == [t |-> "number", s |-> <<>>, n |-> n]

IsString(v) == v.t = "string"

\* !v is false
Truthy(v) ==
    CASE v.t = "string" -> Len(v.s) > 0
      [] v.t = "number" -> v.n # 0
      [] OTHER -> FALSE

Bool(b) == [k |-> "bool", b |-> b]

Null == [k |-> "null"]

StrResult(s) == [k |-> "string", s |-> s]

Value(v) == [k |-> "value", v |-> v]

Pair(version, hash160) == [k |-> "pair", version |-> version, hash160 |-> hash160]

Throw(e) == [k |-> "throw", error |-> e]

Throws(r) == r.k = "throw"

(***************************************************************************)
(* The c32check package (imported at address.ts:6).                        *)
(***************************************************************************)
\* c32normalize: upper-case, then O -> 0 and L, I -> 1
c32normalizeChar(ch) ==
    LET u == UpperChar(ch)
    IN  IF u = "O" THEN "0" ELSE IF u = "L" \/ u = "I" THEN "1" ELSE u

c32normalize(c32input) == AsSeq([i \in 1..Len(c32input) |-> c32normalizeChar(c32input[i])])

IsHexString(s) == \A i \in 1..Len(s) : IndexOf(hex, LowerChar(s[i])) >= 0

IsC32String(s) == \A i \in 1..Len(s) : IndexOf(c32, s[i]) >= 0

\* the number of leading characters of s equal to ch
LeadingCount(s, ch) ==
    IF \A i \in 1..Len(s) : s[i] = ch THEN Len(s)
    ELSE (CHOOSE i \in 1..Len(s) : s[i] # ch /\ \A j \in 1..(i - 1) : s[j] = ch) - 1

Repeat(s, n) == AsSeq([i \in 1..(n * Len(s)) |-> s[((i - 1) % Len(s)) + 1]])

\* the number of leading zero bytes of an even-length lower-case hex string
LeadingZeroBytes(h) == LeadingCount(h, "0") \div 2

\* The loop of c32encode runs from the last hex digit to the first with
\* carry = 0, 1, 2, 3, 4, 0, ...: at carry < 4 it emits the c32 digit made of
\* the high 4 - carry bits of the hex digit and the low carry + 1 bits of the
\* hex digit before it, at carry = 4 it emits nothing.
c32encodeDigit(inputHex, i) ==
    LET carry == (Len(inputHex) - i) % 5
        currentCode == IndexOf(hex, inputHex[i]) \div Pow2(carry)
        nextCode == IF i # 1 THEN IndexOf(hex, inputHex[i - 1]) ELSE 0
        nextBits == 1 + carry
        nextLowBits == (nextCode % Pow2(nextBits)) * Pow2(5 - nextBits)
    IN  c32[currentCode + nextLowBits + 1]

\* the digits emitted, first to last: the k-th from the end (k = 0, 1, ...)
\* comes from hex digit Len - (k + k \div 4)
c32encodeLoop(inputHex) ==
    LET n == Len(inputHex)
        m == n - (n \div 5)
    IN  AsSeq([j \in 1..m |->
                 c32encodeDigit(inputHex, n - ((m - j) + ((m - j) \div 4)))])

\* c32encode of a hex string (the caller has checked that it is hex)
c32encode(hexIn) ==
    LET padded == IF Len(hexIn) % 2 # 0 THEN <<"0">> \o hexIn ELSE hexIn
        inputHex == toLowerCase(padded)
        res == c32encodeLoop(inputHex)
        C32leadingZeros == LeadingCount(res, "0")
        stripped == SubSeq(res, C32leadingZeros + 1, Len(res))
        numLeadingZeroBytesInHex == LeadingZeroBytes(inputHex)
    IN  Repeat(<<"0">>, numLeadingZeroBytesInHex) \o stripped

\* bit b (0 is the lowest) of the number that the c32 digits spell
c32Bit(c32input, b) ==
    LET d == b \div 5
    IN  IF d >= Len(c32input) THEN 0
        ELSE (IndexOf(c32, c32input[Len(c32input) - d]) \div Pow2(b % 5)) % 2

\* The loop of c32decode runs from the last c32 digit to the first, emits the
\* low four bits of digit and carry each time, flushes the carry as a hex
\* digit whenever it has grown to four bits, and ends with 'one last carry':
\* Len + ceil(Len / 4) hex digits, the base-16 digits of the number the c32
\* digits spell (its 'Panic error' test, carry > 1 << carryBits, never holds).
c32decodeLoop(c32input) ==
    LET n == IF Len(c32input) = 0 THEN 1
             ELSE Len(c32input) + ((Len(c32input) - 1) \div 4) + 1
        digit(p) == c32Bit(c32input, 4 * p) + 2 * c32Bit(c32input, 4 * p + 1)
                    + 4 * c32Bit(c32input, 4 * p + 2) + 8 * c32Bit(c32input, 4 * p + 3)
    IN  AsSeq([i \in 1..n |-> hex[digit(n - i) + 1]])

\* c32decode: a "string" result (hex digits) or a throw
c32decode(input) ==
    LET c32input == c32normalize(input)
    IN  IF ~IsC32String(c32input) THEN Throw("Not a c32-encoded string")
        ELSE LET numLeadingZeroBytes == LeadingCount(c32input, "0")
                 loop == c32decodeLoop(c32input)
                 res == IF Len(loop) % 2 = 1 THEN <<"0">> \o loop ELSE loop
                 hexLeadingZeros == LeadingCount(res, "0")
                 cut == hexLeadingZeros - (hexLeadingZeros % 2)
                 hexStr == SubSeq(res, cut + 1, Len(res))
             IN  StrResult(Repeat(<<"0", "0">>, numLeadingZeroBytes) \o hexStr)

\* The digest that stands for SHA-256: a weighted sum of the hex digits,
\* modulo 2^24 (a changed digit always changes it).
DigestWeight(i) == ((i * 7919) % 65521) + 1

RECURSIVE DigestSum(_, _, _)
DigestSum(dataHex, lo, hi) ==
    IF lo > hi THEN 0
    ELSE IF lo = hi THEN (IndexOf(hex, dataHex[lo]) + 1) * DigestWeight(lo)
    ELSE DigestSum(dataHex, lo, (lo + hi) \div 2)
         + DigestSum(dataHex, ((lo + hi) \div 2) + 1, hi)

Digest(dataHex) == (DigestSum(dataHex, 1, Len(dataHex)) + 40503 * Len(dataHex)) % 16777216

\* n as `digits` lower-case hex digits, most significant first
ToHex(n, digits) == AsSeq([i \in 1..digits |-> hex[((n \div (16 ^ (digits - i))) % 16) + 1]])

\* c32checksum: a hex string to eight hex digits (four bytes)
c32checksum(dataHex) ==
    LET d == Digest(dataHex)
    IN  ToHex(d, 6) \o ToHex(((d \div 3) + Len(dataHex)) % 256, 2)

\* version.toString(16), left-padded to two digits
VersionHex(version) == ToHex(version, 2)

\* c32checkEncode(version, data): a "string" result or a throw
c32checkEncode(version, dataIn) ==
    IF version < 0 \/ version >= 32
    THEN Throw("Invalid version (must be between 0 and 31)")
    ELSE IF ~IsHexString(dataIn) THEN Throw("Invalid data (not a hex string)")
    ELSE LET lowered == toLowerCase(dataIn)
             data == IF Len(lowered) % 2 # 0 THEN <<"0">> \o lowered ELSE lowered
             checksumHex == c32checksum(VersionHex(version) \o data)
             c32str == c32encode(data \o checksumHex)
         IN  StrResult(<<c32[version + 1]>> \o c32str)

\* c32checkDecode(c32data): a "pair" result [version, hash160] or a throw
c32checkDecode(input) ==
    LET c32data == c32normalize(input)
        decoded == c32decode(JsSliceFrom(c32data, 1))
    IN  IF Throws(decoded) THEN decoded
        ELSE LET dataHex == decoded.s
                 version == IndexOf(c32, c32data[1])
                 checksum == JsSliceFrom(dataHex, -8)
                 data == JsSubstring(dataHex, 0, Len(dataHex) - 8)
             IN  IF version < 0
                 THEN Throw("Invalid c32check string: checksum mismatch")
                 ELSE IF c32checksum(VersionHex(version) \o data) # checksum
                 THEN Throw("Invalid c32check string: checksum mismatch")
                 ELSE Pair(version, data)

\* /^[0-9a-fA-F]{40}$/
IsHash160Hex(s) == Len(s) = 40 /\ IsHexString(s)

\* c32address(version, hash160hex): a "string" result or a throw
c32address(version, hash160hex) ==
    IF ~IsHash160Hex(hash160hex)
    THEN Throw("Invalid argument: not a hash160 hex string")
    ELSE LET c32string == c32checkEncode(version, hash160hex)
         IN  IF Throws(c32string) THEN c32string
             ELSE StrResult(<<"S">> \o c32string.s)

\* c32addressDecode(c32addr) on any JavaScript value: a string goes through
\* the two guards and c32checkDecode; null and undefined have no .length
\* (TypeError); a number has no .length and no [0], so the 'S' guard throws
c32addressDecode(c32addr) ==
    IF ~IsString(c32addr)
    THEN IF c32addr.t = "number"
         THEN Throw("Invalid c32 address: must start with \"S\"")
         ELSE Throw("TypeError")
    ELSE IF Len(c32addr.s) <= 5 THEN Throw("Invalid c32 address: invalid length")
    ELSE IF c32addr.s[1] # "S" THEN Throw("Invalid c32 address: must start with \"S\"")
    ELSE c32checkDecode(JsSliceFrom(c32addr.s, 1))

(***************************************************************************)
(* src/src/address.ts                                                      *)
(***************************************************************************)
ADDRESS_VERSION_TABLE ==
    [MAINNET_SINGLE_SIG |-> 22, MAINNET_MULTI_SIG |-> 20,
     TESTNET_SINGLE_SIG |-> 26, TESTNET_MULTI_SIG |-> 21]

SP == <<"S", "P">>

ST == <<"S", "T">>

SM == <<"S", "M">>

SN == <<"S", "N">>

\* HasStacksPrefix with the SN test forgotten
HasStacksPrefix_NoSN(s) ==
    ~(~startsWith(s, SP) /\ ~startsWith(s, ST) /\ ~startsWith(s, SM))

\* the prefix test of isValidStacksAddress (case-sensitive startsWith)
HasStacksPrefix(s) ==
    ~(~startsWith(s, SP) /\ ~startsWith(s, ST) /\ ~startsWith(s, SM) /\ ~startsWith(s, SN))

\* isValidStacksAddress without its prefix guard
isValidStacksAddress_NoPrefixGuard(address) ==
    IF ~Truthy(address) \/ ~IsString(address) THEN Bool(FALSE)
    ELSE IF Throws(c32addressDecode(address)) THEN Bool(FALSE)
    ELSE Bool(TRUE)

\* isValidStacksAddress: the guards, then c32addressDecode inside try/catch
isValidStacksAddress(address) ==
    IF ~Truthy(address) \/ ~IsString(address) THEN Bool(FALSE)
    ELSE IF ~HasStacksPrefix(address.s) THEN Bool(FALSE)
    ELSE IF Throws(c32addressDecode(address)) THEN Bool(FALSE)
    ELSE Bool(TRUE)

\* isMainnetAddress with the SM test forgotten
isMainnetAddress_NoSM(address) ==
    IF ~IsString(address) THEN Throw("TypeError")
    ELSE Bool(startsWith(address.s, SP))

\* isMainnetAddress: address.startsWith is a TypeError on a non-string
isMainnetAddress(address) ==
    IF ~IsString(address) THEN Throw("TypeError")
    ELSE Bool(startsWith(address.s, SP) \/ startsWith(address.s, SM))

\* isTestnetAddress with the SN test forgotten
isTestnetAddress_NoSN(address) ==
    IF ~IsString(address) THEN Throw("TypeError")
    ELSE Bool(startsWith(address.s, ST))

\* isTestnetAddress: address.startsWith is a TypeError on a non-string
isTestnetAddress(address) ==
    IF ~IsString(address) THEN Throw("TypeError")
    ELSE Bool(startsWith(address.s, ST) \/ startsWith(address.s, SN))

\* getNetworkFromAddress: no try/catch, a throw of the two tests propagates
getNetworkFromAddress(address) ==
    LET main == isMainnetAddress(address)
    IN  IF Throws(main) THEN main
        ELSE IF main.b THEN StrResult("mainnet")
        ELSE LET test == isTestnetAddress(address)
             IN  IF Throws(test) THEN test
                 ELSE IF test.b THEN StrResult("testnet")
                 ELSE Null

NetworkType(network, type) == [k |-> "class", network |-> network, type |-> type]

\* Classify with the bodies of the two multi-sig cases exchanged
Classify_MultiSigSwapped(version) ==
    IF version = ADDRESS_VERSION.MAINNET_SINGLE_SIG THEN NetworkType("mainnet", "single-sig")
    ELSE IF version = ADDRESS_VERSION.MAINNET_MULTI_SIG THEN NetworkType("testnet", "multi-sig")
    ELSE IF version = ADDRESS_VERSION.TESTNET_SINGLE_SIG THEN NetworkType("testnet", "single-sig")
    ELSE IF version = ADDRESS_VERSION.TESTNET_MULTI_SIG THEN NetworkType("mainnet", "multi-sig")
    ELSE Null

\* the switch of parseStacksAddress on the decoded version (strict equality,
\* the cases in their order, default: return null)
Classify(version) ==
    IF version = ADDRESS_VERSION.MAINNET_SINGLE_SIG THEN NetworkType("mainnet", "single-sig")
    ELSE IF version = ADDRESS_VERSION.MAINNET_MULTI_SIG THEN NetworkType("mainnet", "multi-sig")
    ELSE IF version = ADDRESS_VERSION.TESTNET_SINGLE_SIG THEN NetworkType("testnet", "single-sig")
    ELSE IF version = ADDRESS_VERSION.TESTNET_MULTI_SIG THEN NetworkType("testnet", "multi-sig")
    ELSE Null

AddressInfo(address, class, version, hash160) ==
    [k |-> "info", address |-> address, network |-> class.network,
     type |-> class.type, version |-> version, hash160 |-> hash160,
     isValid |-> TRUE]

\* parseStacksAddress reporting the normalised spelling instead of its input
parseStacksAddress_Normalised(address) ==
    LET decoded == c32addressDecode(address)
    IN  IF Throws(decoded) THEN Null
        ELSE LET class == Classify(decoded.version)
             IN  IF class = Null THEN Null
                 ELSE AddressInfo(Str(c32normalize(address.s)), class,
                                  decoded.version, decoded.hash160)

\* parseStacksAddress: decode, classify, build the record; catch -> null
parseStacksAddress(address) ==
    LET decoded == c32addressDecode(address)
    IN  IF Throws(decoded) THEN Null
        ELSE LET class == Classify(decoded.version)
             IN  IF class = Null THEN Null
                 ELSE AddressInfo(address, class, decoded.version, decoded.hash160)

DEFAULT_START_CHARS == 5

DEFAULT_END_CHARS == 4

ELLIPSIS == <<".", ".", ".">>

\* shortenAddress: a falsy address is returned as it is; a number has no
\* length (undefined <= n is false) and no slice (TypeError)
shortenAddress(address, startChars, endChars) ==
    IF ~Truthy(address) THEN Value(address)
    ELSE IF ~IsString(address) THEN Throw("TypeError")
    ELSE IF Len(address.s) <= startChars + endChars + 3 THEN Value(address)
    ELSE Value(Str(JsSlice(address.s, 0, startChars) \o ELLIPSIS
                   \o JsSliceFrom(address.s, -endChars)))

\* VersionFor with the type ignored
VersionFor_TypeIgnored(network, type) ==
    IF network = "mainnet" THEN ADDRESS_VERSION.MAINNET_SINGLE_SIG
    ELSE ADDRESS_VERSION.TESTNET_SINGLE_SIG

\* the version chosen by hash160ToAddress
VersionFor(network, type) ==
    IF network = "mainnet"
    THEN IF type = "single-sig" THEN ADDRESS_VERSION.MAINNET_SINGLE_SIG
         ELSE ADDRESS_VERSION.MAINNET_MULTI_SIG
    ELSE IF type = "single-sig" THEN ADDRESS_VERSION.TESTNET_SINGLE_SIG
         ELSE ADDRESS_VERSION.TESTNET_MULTI_SIG

\* hash160ToAddress with the test of the network inverted
hash160ToAddress_NetworkInverted(hash160, network, type) ==
    c32address(VersionFor(IF network = "mainnet" THEN "testnet" ELSE "mainnet", type),
               hash160)

\* hash160ToAddress: no try/catch, a throw of c32address propagates
hash160ToAddress(hash160, network, type) == c32address(VersionFor(network, type), hash160)

\* addressesEqual without the toUpperCase of its two arguments
addressesEqual_CaseSensitive(address1, address2) ==
    IF ~Truthy(address1) \/ ~Truthy(address2) THEN Bool(FALSE)
    ELSE IF ~IsString(address1) \/ ~IsString(address2) THEN Throw("TypeError")
    ELSE Bool(address1.s = address2.s)

\* addressesEqual: false when either is falsy; toUpperCase is a TypeError on
\* a truthy non-string
addressesEqual(address1, address2) ==
    IF ~Truthy(address1) \/ ~Truthy(address2) THEN Bool(FALSE)
    ELSE IF ~IsString(address1) \/ ~IsString(address2) THEN Throw("TypeError")
    ELSE Bool(toUpperCase(address1.s) = toUpperCase(address2.s))

(***************************************************************************)
(* src/src/format.ts: formatRelativeTime.                                  *)
(*                                                                         *)
(* A millisecond count near 1e12 does not fit the checker's integers, so a *)
(* JavaScript number n is held as [k, r] with n = 1000 * k + r and         *)
(* 0 <= r < 1000: Math.floor(n / 1000) is k.                               *)
(***************************************************************************)
Number(k, r) == [k |-> k, r |-> r]

\* the number n, n in the checker's range
FromInt(n) == Number(n \div 1000, n % 1000)

\* the k of 1e12
THRESHOLD_K == 1000000000

\* n > 1e12
GreaterThan1e12(n) == n.k > THRESHOLD_K \/ (n.k = THRESHOLD_K /\ n.r > 0)

\* n * 1000
Times1000(n) == Number(1000 * n.k + n.r, 0)

\* a - b
Minus(a, b) ==
    IF a.r >= b.r THEN Number(a.k - b.k, a.r - b.r)
    ELSE Number(a.k - b.k - 1, a.r - b.r + 1000)

\* the number of decimal digits of n >= 0
DecimalDigits(n) == CHOOSE d \in 1..10 : (d = 10 \/ n < 10 ^ d) /\ (d = 1 \/ n >= 10 ^ (d - 1))

\* `${n}` for an integer n >= 0
ToDecimal(n) ==
    AsSeq([i \in 1..DecimalDigits(n) |->
             hex[((n \div (10 ^ (DecimalDigits(n) - i))) % 10) + 1]])

\* `${n} ${unit}${n > 1 ? 's' : ''} ago`
Ago(n, unit) ==
    ToDecimal(n) \o <<" ">> \o unit \o (IF n > 1 THEN <<"s">> ELSE <<>>)
        \o <<" ", "a", "g", "o">>

JUST_NOW == <<"J", "u", "s", "t", " ", "n", "o", "w">>

\* formatRelativeTime(timestamp) when Date.now() returns dateNow
formatRelativeTime(timestamp, dateNow) ==
    LET ms == IF GreaterThan1e12(timestamp) THEN timestamp ELSE Times1000(timestamp)
        diff == Minus(dateNow, ms)
        seconds == diff.k
        minutes == seconds \div 60
        hours == minutes \div 60
        days == hours \div 24
    IN  IF days > 0 THEN StrResult(Ago(days, <<"d", "a", "y">>))
        ELSE IF hours > 0 THEN StrResult(Ago(hours, <<"h", "o", "u", "r">>))
        ELSE IF minutes > 0 THEN StrResult(Ago(minutes, <<"m", "i", "n", "u", "t", "e">>))
        ELSE StrResult(JUST_NOW)

(***************************************************************************)
(* src/src/memo.ts                                                         *)
(*                                                                         *)
(* A message is a JavaScript string whose UTF-8 bytes matter: it is held   *)
(* as the sequence of its UTF-16 code units (numbers).  A hex string is a  *)
(* sequence of one-character strings, as an address is.                    *)
(***************************************************************************)
MAX_MEMO_LENGTH == 34

IsHighSurrogate(u) == u >= 55296 /\ u <= 56319

IsLowSurrogate(u) == u >= 56320 /\ u <= 57343

REPLACEMENT == 65533

\* the UTF-8 bytes of code point cp
Utf8Bytes(cp) ==
    IF cp < 128 THEN <<cp>>
    ELSE IF cp < 2048 THEN <<192 + (cp \div 64), 128 + (cp % 64)>>
    ELSE IF cp < 65536
    THEN <<224 + (cp \div 4096), 128 + ((cp \div 64) % 64), 128 + (cp % 64)>>
    ELSE <<240 + (cp \div 262144), 128 + ((cp \div 4096) % 64),
           128 + ((cp \div 64) % 64), 128 + (cp % 64)>>

\* the bytes TextEncoder.encode emits for code unit i of s: a high surrogate
\* followed by a low one is one code point (four bytes, emitted at the high
\* one), a surrogate on its own is replaced by U+FFFD
EncodeUnit(s, i) ==
    LET u == s[i]
    IN  IF IsHighSurrogate(u)
        THEN IF i < Len(s) /\ IsLowSurrogate(s[i + 1])
             THEN Utf8Bytes(65536 + (u - 55296) * 1024 + (s[i + 1] - 56320))
             ELSE Utf8Bytes(REPLACEMENT)
        ELSE IF IsLowSurrogate(u)
        THEN IF i > 1 /\ IsHighSurrogate(s[i - 1]) THEN <<>>
             ELSE Utf8Bytes(REPLACEMENT)
        ELSE Utf8Bytes(u)

\* parts[lo] \o ... \o parts[hi]
RECURSIVE Concat(_, _, _)
Concat(parts, lo, hi) ==
    IF lo > hi THEN <<>>
    ELSE IF lo = hi THEN parts[lo]
    ELSE Concat(parts, lo, (lo + hi) \div 2) \o Concat(parts, ((lo + hi) \div 2) + 1, hi)

\* new TextEncoder().encode(s)
TextEncode(s) == Concat([i \in 1..Len(s) |-> EncodeUnit(s, i)], 1, Len(s))

\* BytesToHex without padStart: a byte below 16 gives one digit
BytesToHex_NoPadStart(bytes) ==
    Concat([i \in 1..Len(bytes) |->
              IF bytes[i] < 16 THEN <<hex[bytes[i] + 1]>>
              ELSE <<hex[(bytes[i] \div 16) + 1], hex[(bytes[i] % 16) + 1]>>],
           1, Len(bytes))

\* b.toString(16).padStart(2, '0') of every byte, joined
BytesToHex(bytes) ==
    AsSeq([i \in 1..(2 * Len(bytes)) |->
             IF i % 2 = 1 THEN hex[(bytes[(i + 1) \div 2] \div 16) + 1]
             ELSE hex[(bytes[i \div 2] % 16) + 1]])

\* String.prototype.padEnd(targetLength, '0')
PadEndZero(s, targetLength) ==
    IF Len(s) >= targetLength THEN s
    ELSE s \o Repeat(<<"0">>, targetLength - Len(s))

\* encodeMemo with the padding put in front
encodeMemo_PadStart(message, padToLength) ==
    IF Len(message) = 0
    THEN IF padToLength THEN Repeat(<<"0", "0">>, MAX_MEMO_LENGTH) ELSE <<>>
    ELSE LET encoded == TextEncode(message)
             bytes == IF Len(encoded) > MAX_MEMO_LENGTH
                      THEN SubSeq(encoded, 1, MAX_MEMO_LENGTH) ELSE encoded
             hexStr == BytesToHex(bytes)
         IN  IF padToLength
             THEN Repeat(<<"0">>, MAX_MEMO_LENGTH * 2 - Len(hexStr)) \o hexStr
             ELSE hexStr

\* encodeMemo(message, padToLength)
encodeMemo(message, padToLength) ==
    IF Len(message) = 0
    THEN IF padToLength THEN Repeat(<<"0", "0">>, MAX_MEMO_LENGTH) ELSE <<>>
    ELSE LET encoded == TextEncode(message)
             bytes == IF Len(encoded) > MAX_MEMO_LENGTH
                      THEN SubSeq(encoded, 1, MAX_MEMO_LENGTH) ELSE encoded
             hexStr == BytesToHex(bytes)
         IN  IF padToLength THEN PadEndZero(hexStr, MAX_MEMO_LENGTH * 2) ELSE hexStr

\* the value of a hex digit of either case, -1 for another character
HexDigit(ch) == IndexOf(hex, LowerChar(ch))

NaN == -1

\* parseInt(s, 16) of a string of one or two characters out of the hex
\* digits and letters: the longest run of hex digits at the front, after an
\* optional 0x; NaN when there is none
parseInt16(s) ==
    IF Len(s) = 0 THEN NaN
    ELSE IF Len(s) = 2 /\ s[1] = "0" /\ s[2] \in {"x", "X"} THEN NaN
    ELSE IF HexDigit(s[1]) < 0 THEN NaN
    ELSE IF Len(s) = 1 \/ HexDigit(s[2]) < 0 THEN HexDigit(s[1])
    ELSE 16 * HexDigit(s[1]) + HexDigit(s[2])

\* DecodeBreak of a loop that never breaks
DecodeBreak_Never(cleanHex) == Len(cleanHex)

\* the loop of decodeMemo: the index at which it breaks, the first even
\* index whose byte is 0 with nothing but '0' characters from there on
\* (cleanHex.length when there is none)
DecodeBreak(cleanHex) ==
    LET n == Len(cleanHex)
        zeros(i) == \A j \in (i + 1)..n : cleanHex[j] = "0"
        stops(i) == i % 2 = 0 /\ parseInt16(JsSlice(cleanHex, i, i + 2)) = 0 /\ zeros(i)
    IN  IF \E i \in 0..(n - 1) : stops(i)
        THEN CHOOSE i \in 0..(n - 1) : stops(i) /\ \A j \in 0..(i - 1) : ~stops(j)
        ELSE n

\* the bytes pushed by the loop, as new Uint8Array(bytes) holds them (NaN
\* is stored as 0)
DecodeBytes(cleanHex) ==
    LET count == (DecodeBreak(cleanHex) + 1) \div 2
    IN  AsSeq([p \in 1..count |->
                 LET byte == parseInt16(JsSlice(cleanHex, 2 * (p - 1), 2 * p))
                 IN  IF byte = NaN THEN 0 ELSE byte])

IsLead(b) == b >= 194 /\ b <= 244

\* the number of continuation bytes lead byte b needs
Need(b) == IF b < 224 THEN 1 ELSE IF b < 240 THEN 2 ELSE 3

\* is c allowed as continuation byte t after lead byte b
Continues(b, t, c) ==
    IF t = 1
    THEN c >= (IF b = 224 THEN 160 ELSE IF b = 240 THEN 144 ELSE 128)
         /\ c <= (IF b = 237 THEN 159 ELSE IF b = 244 THEN 143 ELSE 191)
    ELSE c >= 128 /\ c <= 191

\* the m bytes after the lead byte at j continue it
Continued(bytes, j, m) ==
    /\ j + m <= Len(bytes)
    /\ \A t \in 1..m : Continues(bytes[j], t, bytes[j + t])

\* byte i is taken up by the sequence of a lead byte before it
Consumed(bytes, i) ==
    \E j \in Max(1, i - 3)..(i - 1) :
        IsLead(bytes[j]) /\ i - j <= Need(bytes[j]) /\ Continued(bytes, j, i - j)

\* a code point as UTF-16 code units
Utf16Units(cp) ==
    IF cp < 65536 THEN <<cp>>
    ELSE <<55296 + ((cp - 65536) \div 1024), 56320 + ((cp - 65536) % 1024)>>

\* the code point of the complete sequence of the lead byte at i
CodePointAt(bytes, i) ==
    LET b == bytes[i]
        c(t) == bytes[i + t] - 128
    IN  IF Need(b) = 1 THEN (b - 192) * 64 + c(1)
        ELSE IF Need(b) = 2 THEN (b - 224) * 4096 + c(1) * 64 + c(2)
        ELSE (b - 240) * 262144 + c(1) * 4096 + c(2) * 64 + c(3)

\* what the UTF-8 decoder (fatal: false) emits at byte i: the character of a
\* complete sequence at its lead byte, U+FFFD for a sequence cut short and
\* for a byte that starts none, nothing at a continuation byte in use
DecodeAt(bytes, i) ==
    LET b == bytes[i]
    IN  IF b < 128 THEN <<b>>
        ELSE IF IsLead(b)
        THEN IF Continued(bytes, i, Need(b)) THEN Utf16Units(CodePointAt(bytes, i))
             ELSE <<REPLACEMENT>>
        ELSE IF b <= 191 /\ Consumed(bytes, i) THEN <<>>
        ELSE <<REPLACEMENT>>

BOM == 65279

\* new TextDecoder('utf-8', { fatal: false }).decode(bytes): a byte order
\* mark at the front is dropped
TextDecode(bytes) ==
    LET units == Concat([i \in 1..Len(bytes) |-> DecodeAt(bytes, i)], 1, Len(bytes))
    IN  IF Len(units) > 0 /\ units[1] = BOM THEN SubSeq(units, 2, Len(units)) ELSE units

\* the white space and line terminators that String.prototype.trim removes
IsWhiteSpace(u) ==
    \/ u \in {9, 10, 11, 12, 13, 32, 160, 5760, 8232, 8233, 8239, 8287, 12288, 65279}
    \/ (u >= 8192 /\ u <= 8202)

\* String.prototype.trim
Trim(s) ==
    IF \A i \in 1..Len(s) : IsWhiteSpace(s[i]) THEN <<>>
    ELSE LET first == CHOOSE i \in 1..Len(s) :
                          ~IsWhiteSpace(s[i]) /\ \A j \in 1..(i - 1) : IsWhiteSpace(s[j])
             last == CHOOSE i \in 1..Len(s) :
                          ~IsWhiteSpace(s[i]) /\ \A j \in (i + 1)..Len(s) : IsWhiteSpace(s[j])
         IN  SubSeq(s, first, last)

\* decodeMemo(hex)
decodeMemo(hexIn) ==
    IF Len(hexIn) = 0 THEN <<>>
    ELSE LET cleanHex == IF startsWith(hexIn, <<"0", "x">>) THEN JsSliceFrom(hexIn, 2)
                         ELSE hexIn
         IN  Trim(TextDecode(DecodeBytes(cleanHex)))

\* isValidMemo(message)
isValidMemo(message) ==
    IF Len(message) = 0 THEN TRUE
    ELSE Len(TextEncode(message)) <= MAX_MEMO_LENGTH

\* getMemoByteLength(message)
getMemoByteLength(message) ==
    IF Len(message) = 0 THEN 0 ELSE Len(TextEncode(message))

\* a message, as a result
Text(s) == [k |-> "text", s |-> s]

\* '...'
DOTS == <<46, 46, 46>>

\* the loop of truncateMemo: the last code unit is dropped while the UTF-8
\* length exceeds maxLength and anything is left
RECURSIVE truncateLoop(_, _)
truncateLoop(truncated, maxLength) ==
    IF Len(TextEncode(truncated)) > maxLength /\ Len(truncated) > 0
    THEN truncateLoop(JsSlice(truncated, 0, -1), maxLength)
    ELSE truncated

\* truncateMemo leaving no room for the ellipsis it adds
truncateMemo_NoRoomForDots(message, ellipsis) ==
    IF Len(message) = 0 THEN <<>>
    ELSE IF Len(TextEncode(message)) <= MAX_MEMO_LENGTH THEN message
    ELSE IF ellipsis THEN truncateLoop(message, MAX_MEMO_LENGTH) \o DOTS
    ELSE truncateLoop(message, MAX_MEMO_LENGTH)

\* truncateMemo(message, ellipsis)
truncateMemo(message, ellipsis) ==
    IF Len(message) = 0 THEN <<>>
    ELSE IF Len(TextEncode(message)) <= MAX_MEMO_LENGTH THEN message
    ELSE LET maxLength == IF ellipsis THEN MAX_MEMO_LENGTH - 3 ELSE MAX_MEMO_LENGTH
             truncated == truncateLoop(message, maxLength)
         IN  IF ellipsis THEN truncated \o DOTS ELSE truncated

\* MEMO_PREFIXES, in the order of Object.entries: 'EX:', 'INV:', 'ORD:',
\* 'TIP:', 'STK:', 'BRG:'
MEMO_PREFIXES ==
    << [key |-> "EXCHANGE_ID", prefix |-> <<69, 88, 58>>],
       [key |-> "INVOICE", prefix |-> <<73, 78, 86, 58>>],
       [key |-> "ORDER", prefix |-> <<79, 82, 68, 58>>],
       [key |-> "TIP", prefix |-> <<84, 73, 80, 58>>],
       [key |-> "STACK", prefix |-> <<83, 84, 75, 58>>],
       [key |-> "BRIDGE", prefix |-> <<66, 82, 71, 58>> ] >>

PrefixKeys == {MEMO_PREFIXES[i].key : i \in 1..Len(MEMO_PREFIXES)}

\* MEMO_PREFIXES[prefix]
PrefixOf(key) ==
    MEMO_PREFIXES[CHOOSE i \in 1..Len(MEMO_PREFIXES) : MEMO_PREFIXES[i].key = key].prefix

\* createPrefixedMemo(prefix, content)
createPrefixedMemo(prefix, content) == truncateMemo(PrefixOf(prefix) \o content, FALSE)

Key(key) == [t |-> "key", key |-> key]

Parsed(prefix, content) == [k |-> "parsed", prefix |-> prefix, content |-> content]

\* parsePrefixedMemo keeping the prefix in the content
parsePrefixedMemo_PrefixKept(memo) ==
    LET matches(i) == startsWith(memo, MEMO_PREFIXES[i].prefix)
    IN  IF \E i \in 1..Len(MEMO_PREFIXES) : matches(i)
        THEN LET i == CHOOSE i \in 1..Len(MEMO_PREFIXES) :
                          matches(i) /\ \A j \in 1..(i - 1) : ~matches(j)
             IN  Parsed(Key(MEMO_PREFIXES[i].key), memo)
        ELSE Parsed(JsNull, memo)

\* parsePrefixedMemo(memo): the first entry whose prefix the memo starts with
parsePrefixedMemo(memo) ==
    LET matches(i) == startsWith(memo, MEMO_PREFIXES[i].prefix)
    IN  IF \E i \in 1..Len(MEMO_PREFIXES) : matches(i)
        THEN LET i == CHOOSE i \in 1..Len(MEMO_PREFIXES) :
                          matches(i) /\ \A j \in 1..(i - 1) : ~matches(j)
             IN  Parsed(Key(MEMO_PREFIXES[i].key),
                        JsSliceFrom(memo, Len(MEMO_PREFIXES[i].prefix)))
        ELSE Parsed(JsNull, memo)

(***************************************************************************)
(* The stacking (PoX) utilities: cycle arithmetic on block heights.        *)
(***************************************************************************)
\* POX_CONSTANTS.CYCLE_LENGTH
CYCLE_LENGTH == 2100

\* the default of the parameter genesisBlock
DEFAULT_GENESIS_BLOCK == 666050

\* getCycleForBlock without its test of blocks before genesis
getCycleForBlock_NoGenesisTest(blockHeight, genesisBlock) ==
    (blockHeight - genesisBlock) \div CYCLE_LENGTH

\* getCycleForBlock(blockHeight, genesisBlock): Math.floor of the quotient
getCycleForBlock(blockHeight, genesisBlock) ==
    IF blockHeight < genesisBlock THEN 0
    ELSE (blockHeight - genesisBlock) \div CYCLE_LENGTH

\* getBlockForCycle(cycleNumber, genesisBlock)
getBlockForCycle(cycleNumber, genesisBlock) ==
    genesisBlock + (cycleNumber * CYCLE_LENGTH)

\* POX_CONSTANTS.PREPARE_PHASE_LENGTH
PREPARE_PHASE_LENGTH == 100

\* a CycleInfo
CycleInfo(cycleNumber, startBlock, endBlock, preparePhaseStart, rewardPhaseStart, isActive, phase) ==
    [k |-> "cycleInfo", cycleNumber |-> cycleNumber, startBlock |-> startBlock,
     endBlock |-> endBlock, preparePhaseStart |-> preparePhaseStart,
     rewardPhaseStart |-> rewardPhaseStart, isActive |-> isActive,
     phase |-> phase]

\* getCycleInfo whose endBlock is the first block of the next cycle
getCycleInfo_EndBlockPastCycle(cycleNumber, currentBlock, genesisBlock) ==
    LET startBlock == getBlockForCycle(cycleNumber, genesisBlock)
        endBlock == startBlock + CYCLE_LENGTH
        rewardPhaseStart == startBlock + PREPARE_PHASE_LENGTH
    IN  CycleInfo(cycleNumber, startBlock, endBlock, startBlock,
                  rewardPhaseStart,
                  currentBlock >= startBlock /\ currentBlock <= endBlock,
                  IF currentBlock < rewardPhaseStart THEN "prepare" ELSE "reward")

\* getCycleInfo(cycleNumber, currentBlock, genesisBlock)
getCycleInfo(cycleNumber, currentBlock, genesisBlock) ==
    LET startBlock == getBlockForCycle(cycleNumber, genesisBlock)
        endBlock == startBlock + CYCLE_LENGTH - 1
        preparePhaseStart == startBlock
        rewardPhaseStart == startBlock + PREPARE_PHASE_LENGTH
        isActive == currentBlock >= startBlock /\ currentBlock <= endBlock
        phase == IF currentBlock < rewardPhaseStart THEN "prepare" ELSE "reward"
    IN  CycleInfo(cycleNumber, startBlock, endBlock, preparePhaseStart,
                  rewardPhaseStart, isActive, phase)

\* getBlocksUntilCycleEnd that counts up to the first block of the next cycle
getBlocksUntilCycleEnd_ToNextCycle(currentBlock, genesisBlock) ==
    LET currentCycle == getCycleForBlock(currentBlock, genesisBlock)
        cycleEndBlock == getBlockForCycle(currentCycle + 1, genesisBlock)
    IN  cycleEndBlock - currentBlock

\* getBlocksUntilCycleEnd(currentBlock, genesisBlock)
getBlocksUntilCycleEnd(currentBlock, genesisBlock) ==
    LET currentCycle == getCycleForBlock(currentBlock, genesisBlock)
        cycleEndBlock == getBlockForCycle(currentCycle + 1, genesisBlock) - 1
    IN  cycleEndBlock - currentBlock

\* calculateUnlockBlock that unlocks at the start of the last locked cycle
calculateUnlockBlock_LastLockedCycle(startCycle, lockPeriod, genesisBlock) ==
    LET endCycle == startCycle + lockPeriod - 1
    IN  getBlockForCycle(endCycle, genesisBlock)

\* calculateUnlockBlock(startCycle, lockPeriod, genesisBlock)
calculateUnlockBlock(startCycle, lockPeriod, genesisBlock) ==
    LET endCycle == startCycle + lockPeriod
    IN  getBlockForCycle(endCycle, genesisBlock)

(***************************************************************************)
(* src/src/bns.ts: BNS names, "name.namespace".                            *)
(***************************************************************************)
\* WhiteSpace and LineTerminator among the characters of the model: space,
\* tab, line feed, carriage return, form feed
IsWhiteSpaceChar(ch) == ch \in {" ", "\t", "\n", "\r", "\f"}

\* String.prototype.trim
JsTrim(s) ==
    IF \A i \in 1..Len(s) : IsWhiteSpaceChar(s[i]) THEN <<>>
    ELSE LET first == CHOOSE i \in 1..Len(s) :
                          /\ ~IsWhiteSpaceChar(s[i])
                          /\ \A j \in 1..(i - 1) : IsWhiteSpaceChar(s[j])
             last == CHOOSE i \in 1..Len(s) :
                          /\ ~IsWhiteSpaceChar(s[i])
                          /\ \A j \in (i + 1)..Len(s) : IsWhiteSpaceChar(s[j])
         IN  SubSeq(s, first, last)

\* the positions of the separator ch in s
SeparatorsAt(s, ch) == {i \in 1..Len(s) : s[i] = ch}

\* the position of the k-th separator ch in s; 0 for k = 0, Len(s) + 1 past
\* the last one
SeparatorAt(s, ch, k) ==
    IF k = 0 THEN 0
    ELSE IF k > Cardinality(SeparatorsAt(s, ch)) THEN Len(s) + 1
    ELSE CHOOSE i \in SeparatorsAt(s, ch) :
             Cardinality({j \in SeparatorsAt(s, ch) : j < i}) = k - 1

\* String.prototype.split with a one-character separator: one part more than
\* there are separators, empty parts included
JsSplit(s, ch) ==
    AsSeq([k \in 1..(Cardinality(SeparatorsAt(s, ch)) + 1) |->
              SubSeq(s, SeparatorAt(s, ch, k - 1) + 1, SeparatorAt(s, ch, k) - 1)])

\* BNS_CONSTANTS.MAX_NAME_LENGTH
MAX_NAME_LENGTH == 48

\* BNS_CONSTANTS.MAX_NAMESPACE_LENGTH
MAX_NAMESPACE_LENGTH == 20

\* [0-9]
IsDigit(ch) == ch \in {"0", "1", "2", "3", "4", "5", "6", "7", "8", "9"}

\* [a-z0-9]
IsLowerAlnum(ch) == IndexOf(LOWER, ch) >= 0 \/ IsDigit(ch)

\* /^[a-z0-9][a-z0-9-]*[a-z0-9]$|^[a-z0-9]$/
NameRegex(s) ==
    \/ /\ Len(s) >= 2
       /\ IsLowerAlnum(s[1])
       /\ \A i \in 2..(Len(s) - 1) : IsLowerAlnum(s[i]) \/ s[i] = "-"
       /\ IsLowerAlnum(s[Len(s)])
    \/ /\ Len(s) = 1
       /\ IsLowerAlnum(s[1])

\* /^[a-z0-9]+$/
NamespaceRegex(s) == Len(s) >= 1 /\ \A i \in 1..Len(s) : IsLowerAlnum(s[i])

\* isValidBnsName whose pattern has no alternative for a single character
isValidBnsName_NoSingleCharacter(name) ==
    IF ~Truthy(name) \/ ~IsString(name) THEN FALSE
    ELSE IF Len(name.s) > MAX_NAME_LENGTH THEN FALSE
    ELSE IF Len(name.s) < 1 THEN FALSE
    ELSE NameRegex(name.s) /\ Len(name.s) >= 2

\* isValidBnsName(name)
isValidBnsName(name) ==
    IF ~Truthy(name) \/ ~IsString(name) THEN FALSE
    ELSE IF Len(name.s) > MAX_NAME_LENGTH THEN FALSE
    ELSE IF Len(name.s) < 1 THEN FALSE
    ELSE NameRegex(name.s)

\* isValidBnsNamespace(namespace)
isValidBnsNamespace(namespace) ==
    IF ~Truthy(namespace) \/ ~IsString(namespace) THEN FALSE
    ELSE IF Len(namespace.s) > MAX_NAMESPACE_LENGTH THEN FALSE
    ELSE IF Len(namespace.s) < 1 THEN FALSE
    ELSE NamespaceRegex(namespace.s)

\* a ParsedName that is not valid: it has an error
InvalidName(name, namespace, error) ==
    [k |-> "parsedName", name |-> name, namespace |-> namespace,
     isValid |-> FALSE, error |-> error]

\* a ParsedName that is valid
ValidName(name, namespace) ==
    [k |-> "parsedName", name |-> name, namespace |-> namespace, isValid |-> TRUE]

\* parseBnsName(fullName)
parseBnsName(fullName) ==
    IF ~Truthy(fullName) \/ ~IsString(fullName)
    THEN InvalidName(<<>>, <<>>, "Invalid input")
    ELSE LET parts == JsSplit(JsTrim(toLowerCase(fullName.s)), ".")
         IN  IF Len(parts) # 2
             THEN InvalidName(<<>>, <<>>, "Name must be in format \"name.namespace\"")
             ELSE LET name == parts[1]
                      namespace == parts[2]
                  IN  IF ~isValidBnsName(Str(name))
                      THEN InvalidName(name, namespace, "Invalid name format")
                      ELSE IF ~isValidBnsNamespace(Str(namespace))
                      THEN InvalidName(name, namespace, "Invalid namespace format")
                      ELSE ValidName(name, namespace)

\* isValidFullBnsName(fullName)
isValidFullBnsName(fullName) == parseBnsName(fullName).isValid

\* the own properties of basePrices, in micro-STX
BASE_PRICES ==
    << [key |-> <<"b","t","c">>, price |-> 2000000],
       [key |-> <<"s","t","x">>, price |-> 2000000],
       [key |-> <<"i","d">>, price |-> 1000000],
       [key |-> <<"a","p","p">>, price |-> 5000000] >>

\* the price of a namespace that basePrices does not have
DEFAULT_BASE_PRICE == 10000000

\* the properties that an object literal inherits from Object.prototype and
\* whose names are in lower case: constructor (the function Object) and
\* __proto__ (Object.prototype itself)
INHERITED_KEYS ==
    {<<"c","o","n","s","t","r","u","c","t","o","r">>,
     <<"_","_","p","r","o","t","o","_","_">>}

\* a value that is an object or a function
Object(key) == [k |-> "object", inherited |-> key]

\* basePrices[key]: an own property, an inherited one, or undefined
GetBasePrice(key) ==
    IF \E i \in 1..Len(BASE_PRICES) : BASE_PRICES[i].key = key
    THEN Value(BASE_PRICES[CHOOSE i \in 1..Len(BASE_PRICES) : BASE_PRICES[i].key = key].price)
    ELSE IF key \in INHERITED_KEYS THEN Object(key)
    ELSE Null

\* left || right, left a bigint, an object or undefined
OrElse(left, right) ==
    CASE left.k = "value" -> IF left.v # 0 THEN left ELSE right
      [] left.k = "object" -> left
      [] OTHER -> right

\* left * right, right a bigint: the product of two bigints; an object on
\* the left becomes a number and the operator throws a TypeError, since it
\* does not mix a number and a bigint
TimesBigInt(left, right) ==
    IF left.k = "value" THEN Value(left.v * right)
    ELSE Throw("TypeError")

\* estimateNamePrice(name, namespace)
estimateNamePrice(name, namespace) ==
    LET length == Len(name)
        basePrice == OrElse(GetBasePrice(toLowerCase(namespace)), Value(DEFAULT_BASE_PRICE))
    IN  IF length <= 3 THEN TimesBigInt(basePrice, 100)
        ELSE IF length <= 5 THEN TimesBigInt(basePrice, 10)
        ELSE IF length <= 8 THEN TimesBigInt(basePrice, 5)
        ELSE basePrice

(***************************************************************************)
(* src/src/tokens.ts: compareTokenAmounts.                                 *)
(***************************************************************************)
\* a bigint
BigIntOf(n) == [t |-> "bigint", s |-> <<>>, n |-> n]

\* a number that is not an integer: s holds its digits, n its integer part
Fraction(n, digits) == [t |-> "number", s |-> digits, n |-> n]

\* the value of a digit in a radix, or -1 when it is no digit of the radix
DigitIn(ch, radix) ==
    IF IndexOf(hex, LowerChar(ch)) < radix THEN IndexOf(hex, LowerChar(ch)) ELSE -1

\* s is one or more digits of the radix
IsDigits(s, radix) == Len(s) >= 1 /\ \A i \in 1..Len(s) : DigitIn(s[i], radix) >= 0

\* the integer that the digits s denote in the radix
RECURSIVE RadixValue(_, _)
RadixValue(s, radix) ==
    IF Len(s) = 0 THEN 0
    ELSE (RadixValue(SubSeq(s, 1, Len(s) - 1), radix) * radix) + DigitIn(s[Len(s)], radix)

\* the radix that a prefix 0x, 0o or 0b announces, or 0
PrefixRadix(s) ==
    IF Len(s) < 2 \/ s[1] # "0" THEN 0
    ELSE CASE LowerChar(s[2]) = "x" -> 16
           [] LowerChar(s[2]) = "o" -> 8
           [] LowerChar(s[2]) = "b" -> 2
           [] OTHER -> 0

\* BigInt(string): white space is trimmed; the empty string is 0n; decimal
\* digits may have a sign; digits after 0x, 0o or 0b may not; anything else
\* (a decimal point, an exponent, letters) is a SyntaxError
BigIntFromString(s) ==
    LET t == JsTrim(s)
        signed == Len(t) >= 1 /\ t[1] \in {"+", "-"}
        digits == IF signed THEN SubSeq(t, 2, Len(t)) ELSE t
    IN  IF Len(t) = 0 THEN Value(0)
        ELSE IF PrefixRadix(t) # 0
        THEN IF IsDigits(SubSeq(t, 3, Len(t)), PrefixRadix(t))
             THEN Value(RadixValue(SubSeq(t, 3, Len(t)), PrefixRadix(t)))
             ELSE Throw("SyntaxError")
        ELSE IF IsDigits(digits, 10)
        THEN Value(IF signed /\ t[1] = "-" THEN 0 - RadixValue(digits, 10)
                   ELSE RadixValue(digits, 10))
        ELSE Throw("SyntaxError")

\* typeof v === 'bigint' ? v : BigInt(v), for a bigint, a number or a string:
\* BigInt(number) is a RangeError unless the number is an integer
ToBigInt(v) ==
    CASE v.t = "bigint" -> Value(v.n)
      [] v.t = "number" -> IF v.s = <<>> THEN Value(v.n) ELSE Throw("RangeError")
      [] OTHER -> BigIntFromString(v.s)

\* compareTokenAmounts without its test valueA > valueB
compareTokenAmounts_NeverGreater(a, b) ==
    LET valueA == ToBigInt(a)
        valueB == ToBigInt(b)
    IN  IF Throws(valueA) THEN valueA
        ELSE IF Throws(valueB) THEN valueB
        ELSE IF valueA.v < valueB.v THEN Value(-1)
        ELSE Value(0)

\* compareTokenAmounts(a, b)
compareTokenAmounts(a, b) ==
    LET valueA == ToBigInt(a)
        valueB == ToBigInt(b)
    IN  IF Throws(valueA) THEN valueA
        ELSE IF Throws(valueB) THEN valueB
        ELSE IF valueA.v < valueB.v THEN Value(-1)
        ELSE IF valueA.v > valueB.v THEN Value(1)
        ELSE Value(0)

(***************************************************************************)
(* Contract identifiers, "address.name": parseContractId and               *)
(* buildContractId of the API helpers, createContractCallPayload of the    *)
(* transaction helpers (src/src/utils/dys0pm.ts).                          *)
(***************************************************************************)
\* what parseContractId returns for two parts
ContractId(address, contractName) ==
    [k |-> "contractId", address |-> address, contractName |-> contractName]

\* parseContractId that takes the first two of two or more parts
parseContractId_FirstTwoParts(contractId) ==
    LET parts == JsSplit(contractId, ".")
    IN  IF Len(parts) < 2 THEN Null
        ELSE ContractId(parts[1], parts[2])

\* parseContractId(contractId)
parseContractId(contractId) ==
    LET parts == JsSplit(contractId, ".")
    IN  IF Len(parts) # 2 THEN Null
        ELSE ContractId(parts[1], parts[2])

\* buildContractId(address, contractName): `${address}.${contractName}`
buildContractId(address, contractName) == address \o <<".">> \o contractName

\* element i (from 0) of an array destructured: undefined past its end
ElementAt(parts, i) == IF i < Len(parts) THEN Str(parts[i + 1]) ELSE JsUndefined

\* a ContractCallPayload
ContractCallPayload(contractAddress, contractName, functionName, functionArgs) ==
    [k |-> "payload", contractAddress |-> contractAddress, contractName |-> contractName,
     functionName |-> functionName, functionArgs |-> functionArgs]

\* createContractCallPayload(contractId, functionName, functionArgs)
createContractCallPayload(contractId, functionName, functionArgs) ==
    LET parts == JsSplit(contractId, ".")
        contractAddress == ElementAt(parts, 0)
        contractName == ElementAt(parts, 1)
    IN  IF ~Truthy(contractAddress) \/ ~Truthy(contractName)
        THEN Throw("Invalid contract ID format. Expected \"address.name\"")
        ELSE ContractCallPayload(contractAddress.s, contractName.s,
                                 functionName, functionArgs)

(***************************************************************************)
(* The status predicates of the transaction helpers.                       *)
(***************************************************************************)
\* TX_STATUS of the constants
TX_STATUS ==
    [PENDING |-> "pending", SUCCESS |-> "success", FAILED |-> "abort_by_response",
     DROPPED |-> "dropped_replace_by_fee"]

\* isSuccessfulTx(status)
isSuccessfulTx(status) == status = TX_STATUS.SUCCESS \/ status = "success"

\* isPendingTx(status)
isPendingTx(status) == status = TX_STATUS.PENDING \/ status = "pending"

\* isFailedTx that takes every status but 'success' for a failure
isFailedTx_AllButSuccess(status) == ~(status = TX_STATUS.SUCCESS)

\* isFailedTx(status)
isFailedTx(status) ==
    \/ status = TX_STATUS.FAILED
    \/ status = "abort_by_response"
    \/ status = "abort_by_post_condition"

(***************************************************************************)
(* The inputs of the calls.                                                *)
(***************************************************************************)
\* hash160 sample i: 4 * (i % 3) leading zero digits, then a digit pattern
Hash(i) ==
    AsSeq([j \in 1..40 |-> IF j <= 4 * (i % 3) THEN "0"
                           ELSE hex[(((i + 1) * (j * j + 3 * j + 1) + i) % 16) + 1]])

ZeroHash == Repeat(<<"0">>, 40)

Hashes == {Hash(i) : i \in 0..(NumHashes - 1)} \cup {ZeroHash}

\* well-formed 20-byte hashes in lower and upper case, and malformed ones
HashInputs ==
    Hashes \cup {toUpperCase(h) : h \in Hashes}
           \cup {SubSeq(h, 1, 39) : h \in Hashes}
           \cup {h \o <<"0", "0">> : h \in Hashes}
           \cup {<<"g">> \o SubSeq(h, 2, 40) : h \in Hashes}
           \cup {<<>>}

Networks == {"mainnet", "testnet"}

Types == {"single-sig", "multi-sig"}

KnownVersions == {22, 20, 26, 21}

\* versions next to the known ones, and the ends of the c32 version range
OtherVersions == {0, 19, 23, 27, 31}

\* addresses as c32address spells them
Canonical(versions) == {c32address(v, h).s : v \in versions, h \in Hashes}

\* payloads that are not 20 bytes long
OddPayloads ==
    {SubSeq(Hash(0), 1, 2 * n) : n \in 0..MaxShortBytes} \cup {Hash(0) \o <<"a", "b">>}

\* well-formed c32check strings, 'S' in front, whose payload is not 20 bytes
OddLength == {<<"S">> \o c32checkEncode(v, d).s : v \in KnownVersions, d \in OddPayloads}

ReplaceAt(s, i, ch) == AsSeq([j \in 1..Len(s) |-> IF j = i THEN ch ELSE s[j]])

\* another c32 digit than ch
OtherDigit(ch) == c32[((IndexOf(c32, ch) + 1) % 32) + 1]

\* 0 written O and 1 written L, after the two-letter prefix
Confusable(s) ==
    AsSeq([j \in 1..Len(s) |-> IF j > 2 /\ s[j] = "0" THEN "O"
                               ELSE IF j > 2 /\ s[j] = "1" THEN "L" ELSE s[j]])

\* other spellings of address a that c32normalize maps to a
Respelled(a) ==
    { toLowerCase(a),
      <<"S">> \o toLowerCase(SubSeq(a, 2, Len(a))),
      SubSeq(a, 1, 2) \o toLowerCase(SubSeq(a, 3, Len(a))),
      <<"S", LowerChar(a[2])>> \o SubSeq(a, 3, Len(a)),
      Confusable(a) }

\* address a damaged: a digit changed, a character lost, a digit added, a
\* character outside the alphabet
Damaged(a) ==
    { ReplaceAt(a, Len(a), OtherDigit(a[Len(a)])),
      ReplaceAt(a, 3, OtherDigit(a[3])),
      SubSeq(a, 1, Len(a) - 1),
      SubSeq(a, 1, 2) \o <<"0">> \o SubSeq(a, 3, Len(a)),
      ReplaceAt(a, Len(a), "U"),
      ReplaceAt(a, 4, "_") }

EMPTY == <<>>

INVALID == <<"i","n","v","a","l","i","d">>

HEX_1234 == <<"0","x","1","2","3","4">>

BTC_BECH32 == <<"b","c","1","q","a","r","0","s","r","r","r","7","x","f","k","v","y","5","l","6","4","3","l","y","d","n","w","9","r","e","5","9","g","t","z","z","w","f","5","m","d","q">>

SP123 == <<"S","P","1","2","3">>

\* the strings of the tests of isValidStacksAddress and parseStacksAddress
\* that are no addresses, and short strings around the two guards
Malformed ==
    {EMPTY, INVALID, HEX_1234, BTC_BECH32, SP123, SP, <<"S">>,
     <<"S","P","S","P","S","P">>, <<"S","T","A","B","C","D","E","F","G","H">>}

AddressStrings ==
    Canonical(KnownVersions \cup OtherVersions)
      \cup UNION {Respelled(a) : a \in Canonical(KnownVersions)}
      \cup UNION {Damaged(a) : a \in Canonical(KnownVersions)}
      \cup OddLength \cup Malformed

NonStrings == {JsNull, JsUndefined, Num(0), Num(123)}

\* what a caller may pass as an address
AddressInputs == {Str(s) : s \in AddressStrings} \cup NonStrings

\* the addresses of the tests of shortenAddress and addressesEqual
TEST_MAINNET == <<"S","P","2","J","6","Z","Y","4","8","G","V","1","E","Z","5","V","2","V","5","R","B","9","M","P","6","6","S","W","8","6","P","Y","K","K","N","R","V","9","E","J","7">>

TEST_TESTNET == <<"S","T","2","J","6","Z","Y","4","8","G","V","1","E","Z","5","V","2","V","5","R","B","9","M","P","6","6","S","W","8","6","P","Y","K","K","Q","Y","A","C","0","R","Q">>

\* strings of every length 0 .. 2 * MaxChars + 5, and the test addresses
DisplayStrings ==
    {SubSeq(TEST_MAINNET, 1, n) : n \in 0..(2 * MaxChars + 5)}
      \cup {TEST_MAINNET, TEST_TESTNET, SP123}

DisplayInputs == {Str(s) : s \in DisplayStrings} \cup NonStrings

EqualInputs ==
    {Str(s) : s \in {TEST_MAINNET, toLowerCase(TEST_MAINNET), TEST_TESTNET,
                     toLowerCase(TEST_TESTNET), SP123, toLowerCase(SP123), EMPTY}}
      \cup {Str(s) : s \in Canonical({22})}
      \cup {Str(toLowerCase(s)) : s \in Canonical({22})}
      \cup NonStrings

Bytes == 0..255

\* genesis blocks: the default, the first block, another one
GenesisBlocks == {DEFAULT_GENESIS_BLOCK, 0, 1000}

\* cycle numbers
Cycles == 0..MaxCycles

\* block heights around the start of every cycle of genesis block g and of
\* the cycle length before it, and block 0
BlockHeights(g) ==
    {0} \cup {h \in {g + (c * CYCLE_LENGTH) + d :
                        c \in -1..MaxCycles,
                        d \in {-1, 0, 1, 100, CYCLE_LENGTH - 101, CYCLE_LENGTH - 1}} :
                h >= 0}

\* the cycles a stacking position starts in (the test's is cycle 5)
StartCycles == 0..(MaxCycles + 2)

\* lock periods, in cycles: the shortest, the test's, MAX_LOCK_CYCLES
LockPeriods == {1, 3, 12}

\* the names of the tests of bns.ts: 'satoshi', 'my-name', 'name123',
\* '-invalid', 'invalid-', 'UPPER', 'MyName', 'nakamoto'
SATOSHI == <<"s","a","t","o","s","h","i">>

MY_NAME == <<"m","y","-","n","a","m","e">>

NAME123 == <<"n","a","m","e","1","2","3">>

HYPHEN_INVALID == <<"-","i","n","v","a","l","i","d">>

INVALID_HYPHEN == <<"i","n","v","a","l","i","d","-">>

UPPER_CASE == <<"U","P","P","E","R">>

MIXED_CASE == <<"M","y","N","a","m","e">>

NAKAMOTO == <<"n","a","k","a","m","o","t","o">>

\* the namespaces of the tests: 'btc', 'stx', 'id', 'has-hyphen', 'STX'
NS_BTC == <<"b","t","c">>

NS_STX == <<"s","t","x">>

NS_ID == <<"i","d">>

HAS_HYPHEN == <<"h","a","s","-","h","y","p","h","e","n">>

NS_UPPER == <<"S","T","X">>

\* names: those of the tests, short ones around the hyphen rule, one with a
\* space and one with an underscore, and runs around MAX_NAME_LENGTH
BnsNames ==
    {SATOSHI, MY_NAME, NAME123, HYPHEN_INVALID, INVALID_HYPHEN, UPPER_CASE,
     MIXED_CASE, <<>>, <<"a">>, <<"1">>, <<"-">>, <<"a","-">>, <<"-","a">>,
     <<"a","b">>, <<"a","-","-","b">>, <<"a"," ","b">>, <<"a","_","b">>}
      \cup {Repeat(<<"a">>, MAX_NAME_LENGTH + d) : d \in {-1, 0, 1}}
      \cup {<<"a">> \o Repeat(<<"-">>, MAX_NAME_LENGTH - 2) \o <<"9">>}

\* namespaces: those of the tests, and runs around MAX_NAMESPACE_LENGTH
BnsNamespaces ==
    {NS_BTC, NS_STX, NS_ID, HAS_HYPHEN, NS_UPPER, <<>>, <<"7">>, <<"b"," ","c">>}
      \cup {Repeat(<<"z">>, MAX_NAMESPACE_LENGTH + d) : d \in {-1, 0, 1}}

\* the white space around a full name: none, or some on either side
Surroundings ==
    {<< <<>>, <<>> >>, << <<" ">>, <<"\n">> >>, << <<"\t", " ">>, <<>> >>,
     << <<>>, <<"\r", "\f">> >>}

\* full names: a name and a namespace, a name alone, three parts, dots alone
BnsStrings ==
    {w[1] \o n \o <<".">> \o ns \o w[2] :
         n \in BnsNames, ns \in BnsNamespaces, w \in Surroundings}
      \cup BnsNames
      \cup {n \o <<".">> \o m \o <<".">> \o NS_BTC :
               n \in {SATOSHI, <<>>}, m \in {NAKAMOTO, <<>>}}
      \cup {<<" ">>, <<".">>, <<" ", ".", " ">>}

\* what a caller may pass as a full name
BnsInputs == {Str(s) : s \in BnsStrings} \cup NonStrings

\* what a caller may pass as a name or as a namespace
BnsPartInputs == {Str(s) : s \in BnsNames \cup BnsNamespaces} \cup NonStrings

\* the names priced: every length 0 .. MaxPricedChars, and the tests' 'abc'
\* and 'satoshinakamoto'
PricedNames ==
    {Repeat(<<"a">>, n) : n \in 0..MaxPricedChars}
      \cup {<<"a","b","c">>, SATOSHI \o NAKAMOTO}

\* the namespaces priced: those of basePrices, in upper case, two that
\* basePrices does not have ('mega', 'constructor'), and the empty string
PricedNamespaces ==
    {BASE_PRICES[i].key : i \in 1..Len(BASE_PRICES)}
      \cup {NS_UPPER, <<"m","e","g","a">>, <<>>,
            <<"c","o","n","s","t","r","u","c","t","o","r">>}

\* token amounts: those of the tests (1000, 2000), their neighbours, 0, 1
\* and a large one
Amounts == {0, 1, 999, 1000, 1001, 2000, 1000000000}

\* an integer as a bigint, as a number and as a decimal string
Forms(n) == {BigIntOf(n), Num(n), Str(ToDecimal(n))}

\* other arguments: decimal strings with a sign, with white space and with
\* leading zeros, a hexadecimal string, the empty string, and what BigInt
\* refuses: a decimal point, an exponent, letters, a number with a fraction
OtherAmounts ==
    {Str(<<"-","1">>), Str(<<"+","1","0","0","0">>), Str(<<" ","1","0","0","0","\n">>),
     Str(<<"0","1","0","0","0">>), Str(<<"0","x","3","E","8">>), Str(<<>>),
     Str(<<"1",".","5">>), Str(<<"1","e","3">>), Str(<<"a","b","c">>),
     Str(<<"0","x">>), Fraction(1, <<"1",".","5">>)}

\* what a caller may pass as a token amount
AmountInputs == UNION {Forms(n) : n \in Amounts} \cup OtherAmounts

\* contract names: 'contract-name' of parseContractId's comment, 'pox-4', 'btc', one
\* character, none, and one with a dot
CONTRACT_NAME == <<"c","o","n","t","r","a","c","t","-","n","a","m","e">>

POX_4 == <<"p","o","x","-","4">>

ContractNames ==
    {CONTRACT_NAME, POX_4, NS_BTC, <<"a">>, <<>>, <<"a",".","b">>, <<".">>}

\* deployer addresses: the comment's 'SP123', a test address, one character,
\* none, and one with a dot
Deployers == {SP123, TEST_MAINNET, <<"S">>, <<>>, <<"S",".","P">>}

\* contract identifiers: every deployer with every name, a deployer alone,
\* and identifiers of three parts
ContractIds ==
    {d \o <<".">> \o n : d \in Deployers, n \in ContractNames}
      \cup Deployers
      \cup {d \o <<".">> \o n \o <<".">> \o m :
               d \in {SP123, <<>>}, n \in {CONTRACT_NAME, <<>>}, m \in {POX_4, <<>>}}

\* the functions called: 'transfer'
FunctionNames == {<<"t","r","a","n","s","f","e","r">>}

\* status strings: those of TX_STATUS, the other failure that isFailedTx
\* names, and strings that are no status of a transaction
Statuses ==
    {TX_STATUS.PENDING, TX_STATUS.SUCCESS, TX_STATUS.FAILED, TX_STATUS.DROPPED,
     "abort_by_post_condition", "", "SUCCESS", "Pending", "failed",
     "dropped_too_expensive", "success ", "pending,success"}

\* the messages of the tests of memo.ts: 'hello', 'hi', 'test123',
\* 'Payment for services', '12345', 'INV:12345', 'just a message'
HELLO == <<104, 101, 108, 108, 111>>

HI == <<104, 105>>

TEST123 == <<116, 101, 115, 116, 49, 50, 51>>

PAYMENT_FOR_SERVICES == <<80, 97, 121, 109, 101, 110, 116, 32, 102, 111, 114, 32, 115, 101, 114, 118, 105, 99, 101, 115>>

CONTENT_12345 == <<49, 50, 51, 52, 53>>

INV_12345 == <<73, 78, 86, 58, 49, 50, 51, 52, 53>>

JUST_A_MESSAGE == <<106, 117, 115, 116, 32, 97, 32, 109, 101, 115, 115, 97, 103, 101>>

\* 'a'.repeat(50)
A50 == Repeat(<<97>>, 50)

\* characters of one, two, three and four UTF-8 bytes: 'a', e acute, the
\* euro sign, and an emoji (a surrogate pair)
Glyphs == {<<97>>, <<233>>, <<8364>>, <<55357, 56832>>}

\* runs of one character, alone and after an 'a', of up to MAX_MEMO_LENGTH +
\* MaxOverBytes bytes
Runs ==
    {m \in {f \o Repeat(g, n) : f \in {<<>>, <<97>>}, g \in Glyphs,
                                n \in 0..(MAX_MEMO_LENGTH + MaxOverBytes)} :
        Len(TextEncode(m)) <= MAX_MEMO_LENGTH + MaxOverBytes}

\* white space, NUL and a byte order mark around a text; surrogates on
\* their own
Unusual ==
    {<<32>> \o HELLO, HELLO \o <<32>>, <<32>>, <<9>> \o HI \o <<10>>, <<65279>> \o HI,
     HI \o <<0>>, <<0>> \o HI, <<97, 0, 98>>, <<0>>, <<55357>>, HI \o <<56832>>,
     <<56832, 55357>>}

Messages ==
    Runs \cup Unusual
         \cup {HELLO, HI, TEST123, PAYMENT_FOR_SERVICES, CONTENT_12345, INV_12345,
               JUST_A_MESSAGE, A50}

\* memos as parsePrefixedMemo may be given: made by createPrefixedMemo, or
\* not, or nearly
Memos ==
    Messages \cup {createPrefixedMemo(key, m) : key \in PrefixKeys, m \in Messages}
             \cup {<<69, 88>>, <<105, 110, 118, 58, 49>>, <<88, 69, 88, 58>>,
                   <<69, 88, 58, 73, 78, 86, 58>>}

\* hex strings that are no output of encodeMemo: upper case, bytes that are
\* no UTF-8, zero bytes inside and in front, an odd length, no hex at all
OtherHex ==
    {<<"6","8","6","5","6","C","6","C","6","F">>, <<"f","f">>, <<"c","3">>,
     <<"e","2","8","2">>, <<"6","1","e","2","8","2","6","2">>, <<"c","0","8","0">>,
     <<"e","d","a","0","8","0">>, <<"f","4","9","0","8","0","8","0">>,
     <<"0","0">>, <<"0","0","6","1">>, <<"6","1","0","0","6","2">>,
     <<"6","1","0","0","0","0","6","2","0","0">>, <<"6","8","1","0">>,
     <<"6","8","6">>, <<"6","8","0">>, <<"6","8","0","0","0">>, <<"0">>,
     <<"0","x">>, <<"0","X","6","8">>, <<"6","8","0","x","6","9">>,
     <<"g","g">>, <<"6","g">>, <<"6","1","0","g">>}

\* encodeMemo's outputs and the other strings, as they are, behind '0x', and
\* with up to MaxZeroBytes zero bytes added
HexStrings ==
    LET plain == {encodeMemo(m, FALSE) : m \in Messages} \cup OtherHex
        padded == {encodeMemo(m, TRUE) : m \in Messages}
    IN  plain \cup padded
              \cup {<<"0", "x">> \o h : h \in plain}
              \cup {h \o Repeat(<<"0", "0">>, z) : h \in plain, z \in 1..MaxZeroBytes}


\* Date.now() when the module is loaded: 2026-09-21T22:13:20.250Z
NOW_AT_LOAD == Number(1790000000, 250)

\* how long ago, in seconds, the timestamps passed lie at load
Ages == {0, 45, 105, 3585, 7185, 86385, 172785}

\* timestamps in seconds (also one in the future), and in milliseconds
Timestamps ==
    {FromInt(NOW_AT_LOAD.k - a) : a \in Ages \cup {-100}}
      \cup {Number(NOW_AT_LOAD.k - a, 500) : a \in {0, 45}}

(***************************************************************************)
(* The caller: one action per exported function, and one for the version   *)
(* switch of parseStacksAddress on every byte value.                       *)
(***************************************************************************)
Init ==
    /\ op = "none"
    /\ args = <<>>
    /\ ret = Null
    /\ ADDRESS_VERSION = ADDRESS_VERSION_TABLE
    /\ now = NOW_AT_LOAD
    /\ noted = Null

CallIsValidStacksAddress ==
    /\ op = "none"
    /\ \E a \in AddressInputs :
          /\ op' = "isValidStacksAddress"
          /\ args' = [address |-> a]
          /\ ret' = isValidStacksAddress(a)
    /\ UNCHANGED <<ADDRESS_VERSION, now, noted>>

CallIsMainnetAddress ==
    /\ op = "none"
    /\ \E a \in AddressInputs :
          /\ op' = "isMainnetAddress"
          /\ args' = [address |-> a]
          /\ ret' = isMainnetAddress(a)
    /\ UNCHANGED <<ADDRESS_VERSION, now, noted>>

CallIsTestnetAddress ==
    /\ op = "none"
    /\ \E a \in AddressInputs :
          /\ op' = "isTestnetAddress"
          /\ args' = [address |-> a]
          /\ ret' = isTestnetAddress(a)
    /\ UNCHANGED <<ADDRESS_VERSION, now, noted>>

CallGetNetworkFromAddress ==
    /\ op = "none"
    /\ \E a \in AddressInputs :
          /\ op' = "getNetworkFromAddress"
          /\ args' = [address |-> a]
          /\ ret' = getNetworkFromAddress(a)
    /\ UNCHANGED <<ADDRESS_VERSION, now, noted>>

\* parseStacksAddress keeping the version it decoded last in the table
CallParseStacksAddress_WritesTable ==
    /\ op = "none"
    /\ \E a \in AddressInputs :
          /\ op' = "parseStacksAddress"
          /\ args' = [address |-> a]
          /\ ret' = parseStacksAddress(a)
          /\ ADDRESS_VERSION' =
                 IF Throws(c32addressDecode(a)) THEN ADDRESS_VERSION
                 ELSE [ADDRESS_VERSION EXCEPT
                          !.MAINNET_SINGLE_SIG = c32addressDecode(a).version]
    /\ UNCHANGED <<now, noted>>

CallParseStacksAddress ==
    /\ op = "none"
    /\ \E a \in AddressInputs :
          /\ op' = "parseStacksAddress"
          /\ args' = [address |-> a]
          /\ ret' = parseStacksAddress(a)
    /\ UNCHANGED <<ADDRESS_VERSION, now, noted>>

\* the switch of parseStacksAddress, given a version byte
CallClassify ==
    /\ op = "none"
    /\ \E v \in Bytes :
          /\ op' = "classify"
          /\ args' = [version |-> v]
          /\ ret' = Classify(v)
    /\ UNCHANGED <<ADDRESS_VERSION, now, noted>>

CallShortenAddress ==
    /\ op = "none"
    /\ \E a \in DisplayInputs, s \in 0..MaxChars, e \in 0..MaxChars :
          /\ op' = "shortenAddress"
          /\ args' = [address |-> a, startChars |-> s, endChars |-> e]
          /\ ret' = shortenAddress(a, s, e)
    /\ UNCHANGED <<ADDRESS_VERSION, now, noted>>

\* shortenAddress(address): both lengths take their defaults
CallShortenAddressDefault ==
    /\ op = "none"
    /\ \E a \in DisplayInputs :
          /\ op' = "shortenAddress"
          /\ args' = [address |-> a, startChars |-> DEFAULT_START_CHARS,
                      endChars |-> DEFAULT_END_CHARS]
          /\ ret' = shortenAddress(a, DEFAULT_START_CHARS, DEFAULT_END_CHARS)
    /\ UNCHANGED <<ADDRESS_VERSION, now, noted>>

CallHash160ToAddress ==
    /\ op = "none"
    /\ \E h \in HashInputs, n \in Networks, t \in Types :
          /\ op' = "hash160ToAddress"
          /\ args' = [hash160 |-> h, network |-> n, type |-> t]
          /\ ret' = hash160ToAddress(h, n, t)
    /\ UNCHANGED <<ADDRESS_VERSION, now, noted>>

CallAddressesEqual ==
    /\ op = "none"
    /\ \E a \in EqualInputs, b \in EqualInputs :
          /\ op' = "addressesEqual"
          /\ args' = [address1 |-> a, address2 |-> b]
          /\ ret' = addressesEqual(a, b)
    /\ UNCHANGED <<ADDRESS_VERSION, now, noted>>

CallEncodeMemo ==
    /\ op = "none"
    /\ \E m \in Messages, p \in BOOLEAN :
          /\ op' = "encodeMemo"
          /\ args' = [message |-> m, padToLength |-> p]
          /\ ret' = StrResult(encodeMemo(m, p))
    /\ UNCHANGED <<ADDRESS_VERSION, now, noted>>

CallDecodeMemo ==
    /\ op = "none"
    /\ \E h \in HexStrings :
          /\ op' = "decodeMemo"
          /\ args' = [hex |-> h]
          /\ ret' = Text(decodeMemo(h))
    /\ UNCHANGED <<ADDRESS_VERSION, now, noted>>

CallIsValidMemo ==
    /\ op = "none"
    /\ \E m \in Messages :
          /\ op' = "isValidMemo"
          /\ args' = [message |-> m]
          /\ ret' = Bool(isValidMemo(m))
    /\ UNCHANGED <<ADDRESS_VERSION, now, noted>>

CallGetMemoByteLength ==
    /\ op = "none"
    /\ \E m \in Messages :
          /\ op' = "getMemoByteLength"
          /\ args' = [message |-> m]
          /\ ret' = Value(getMemoByteLength(m))
    /\ UNCHANGED <<ADDRESS_VERSION, now, noted>>

CallTruncateMemo ==
    /\ op = "none"
    /\ \E m \in Messages, e \in BOOLEAN :
          /\ op' = "truncateMemo"
          /\ args' = [message |-> m, ellipsis |-> e]
          /\ ret' = Text(truncateMemo(m, e))
    /\ UNCHANGED <<ADDRESS_VERSION, now, noted>>

CallCreatePrefixedMemo ==
    /\ op = "none"
    /\ \E key \in PrefixKeys, c \in Messages \cup {<<>>} :
          /\ op' = "createPrefixedMemo"
          /\ args' = [prefix |-> key, content |-> c]
          /\ ret' = Text(createPrefixedMemo(key, c))
    /\ UNCHANGED <<ADDRESS_VERSION, now, noted>>

CallParsePrefixedMemo ==
    /\ op = "none"
    /\ \E m \in Memos :
          /\ op' = "parsePrefixedMemo"
          /\ args' = [memo |-> m]
          /\ ret' = parsePrefixedMemo(m)
    /\ UNCHANGED <<ADDRESS_VERSION, now, noted>>

CallGetCycleForBlock ==
    /\ op = "none"
    /\ \E g \in GenesisBlocks : \E b \in BlockHeights(g) :
          /\ op' = "getCycleForBlock"
          /\ args' = [blockHeight |-> b, genesisBlock |-> g]
          /\ ret' = Value(getCycleForBlock(b, g))
    /\ UNCHANGED <<ADDRESS_VERSION, now, noted>>

CallGetBlockForCycle ==
    /\ op = "none"
    /\ \E g \in GenesisBlocks, c \in Cycles :
          /\ op' = "getBlockForCycle"
          /\ args' = [cycleNumber |-> c, genesisBlock |-> g]
          /\ ret' = Value(getBlockForCycle(c, g))
    /\ UNCHANGED <<ADDRESS_VERSION, now, noted>>

CallGetCycleInfo ==
    /\ op = "none"
    /\ \E g \in GenesisBlocks, c \in Cycles : \E b \in BlockHeights(g) :
          /\ op' = "getCycleInfo"
          /\ args' = [cycleNumber |-> c, currentBlock |-> b, genesisBlock |-> g]
          /\ ret' = getCycleInfo(c, b, g)
    /\ UNCHANGED <<ADDRESS_VERSION, now, noted>>

CallGetBlocksUntilCycleEnd ==
    /\ op = "none"
    /\ \E g \in GenesisBlocks : \E b \in BlockHeights(g) :
          /\ op' = "getBlocksUntilCycleEnd"
          /\ args' = [currentBlock |-> b, genesisBlock |-> g]
          /\ ret' = Value(getBlocksUntilCycleEnd(b, g))
    /\ UNCHANGED <<ADDRESS_VERSION, now, noted>>

CallCalculateUnlockBlock ==
    /\ op = "none"
    /\ \E g \in GenesisBlocks, s \in StartCycles, l \in LockPeriods :
          /\ op' = "calculateUnlockBlock"
          /\ args' = [startCycle |-> s, lockPeriod |-> l, genesisBlock |-> g]
          /\ ret' = Value(calculateUnlockBlock(s, l, g))
    /\ UNCHANGED <<ADDRESS_VERSION, now, noted>>

CallParseBnsName ==
    /\ op = "none"
    /\ \E f \in BnsInputs :
          /\ op' = "parseBnsName"
          /\ args' = [fullName |-> f]
          /\ ret' = parseBnsName(f)
    /\ UNCHANGED <<ADDRESS_VERSION, now, noted>>

CallIsValidBnsName ==
    /\ op = "none"
    /\ \E n \in BnsPartInputs :
          /\ op' = "isValidBnsName"
          /\ args' = [name |-> n]
          /\ ret' = Bool(isValidBnsName(n))
    /\ UNCHANGED <<ADDRESS_VERSION, now, noted>>

CallIsValidBnsNamespace ==
    /\ op = "none"
    /\ \E n \in BnsPartInputs :
          /\ op' = "isValidBnsNamespace"
          /\ args' = [namespace |-> n]
          /\ ret' = Bool(isValidBnsNamespace(n))
    /\ UNCHANGED <<ADDRESS_VERSION, now, noted>>

CallIsValidFullBnsName ==
    /\ op = "none"
    /\ \E f \in BnsInputs :
          /\ op' = "isValidFullBnsName"
          /\ args' = [fullName |-> f]
          /\ ret' = Bool(isValidFullBnsName(f))
    /\ UNCHANGED <<ADDRESS_VERSION, now, noted>>

CallEstimateNamePrice ==
    /\ op = "none"
    /\ \E n \in PricedNames, ns \in PricedNamespaces :
          /\ op' = "estimateNamePrice"
          /\ args' = [name |-> n, namespace |-> ns]
          /\ ret' = estimateNamePrice(n, ns)
    /\ UNCHANGED <<ADDRESS_VERSION, now, noted>>

CallCompareTokenAmounts ==
    /\ op = "none"
    /\ \E a \in AmountInputs, b \in AmountInputs :
          /\ op' = "compareTokenAmounts"
          /\ args' = [a |-> a, b |-> b]
          /\ ret' = compareTokenAmounts(a, b)
    /\ UNCHANGED <<ADDRESS_VERSION, now, noted>>

CallParseContractId ==
    /\ op = "none"
    /\ \E c \in ContractIds :
          /\ op' = "parseContractId"
          /\ args' = [contractId |-> c]
          /\ ret' = parseContractId(c)
    /\ UNCHANGED <<ADDRESS_VERSION, now, noted>>

CallBuildContractId ==
    /\ op = "none"
    /\ \E d \in Deployers, n \in ContractNames :
          /\ op' = "buildContractId"
          /\ args' = [address |-> d, contractName |-> n]
          /\ ret' = StrResult(buildContractId(d, n))
    /\ UNCHANGED <<ADDRESS_VERSION, now, noted>>

CallCreateContractCallPayload ==
    /\ op = "none"
    /\ \E c \in ContractIds, f \in FunctionNames :
          /\ op' = "createContractCallPayload"
          /\ args' = [contractId |-> c, functionName |-> f, functionArgs |-> <<>>]
          /\ ret' = createContractCallPayload(c, f, <<>>)
    /\ UNCHANGED <<ADDRESS_VERSION, now, noted>>

CallIsSuccessfulTx ==
    /\ op = "none"
    /\ \E s \in Statuses :
          /\ op' = "isSuccessfulTx"
          /\ args' = [status |-> s]
          /\ ret' = Bool(isSuccessfulTx(s))
    /\ UNCHANGED <<ADDRESS_VERSION, now, noted>>

CallIsPendingTx ==
    /\ op = "none"
    /\ \E s \in Statuses :
          /\ op' = "isPendingTx"
          /\ args' = [status |-> s]
          /\ ret' = Bool(isPendingTx(s))
    /\ UNCHANGED <<ADDRESS_VERSION, now, noted>>

CallIsFailedTx ==
    /\ op = "none"
    /\ \E s \in Statuses :
          /\ op' = "isFailedTx"
          /\ args' = [status |-> s]
          /\ ret' = Bool(isFailedTx(s))
    /\ UNCHANGED <<ADDRESS_VERSION, now, noted>>

\* the caller takes the result and is ready for its next call
Return ==
    /\ op # "none"
    /\ op' = "none"
    /\ args' = <<>>
    /\ ret' = Null
    /\ UNCHANGED <<ADDRESS_VERSION, now, noted>>

Next ==
    \/ CallIsValidStacksAddress
    \/ CallIsMainnetAddress
    \/ CallIsTestnetAddress
    \/ CallGetNetworkFromAddress
    \/ CallParseStacksAddress
    \/ CallClassify
    \/ CallShortenAddress
    \/ CallShortenAddressDefault
    \/ CallHash160ToAddress
    \/ CallAddressesEqual
    \/ CallEncodeMemo
    \/ CallDecodeMemo
    \/ CallIsValidMemo
    \/ CallGetMemoByteLength
    \/ CallTruncateMemo
    \/ CallCreatePrefixedMemo
    \/ CallParsePrefixedMemo
    \/ CallGetCycleForBlock
    \/ CallGetBlockForCycle
    \/ CallGetCycleInfo
    \/ CallGetBlocksUntilCycleEnd
    \/ CallCalculateUnlockBlock
    \/ CallParseBnsName
    \/ CallIsValidBnsName
    \/ CallIsValidBnsNamespace
    \/ CallIsValidFullBnsName
    \/ CallEstimateNamePrice
    \/ CallCompareTokenAmounts
    \/ CallParseContractId
    \/ CallBuildContractId
    \/ CallCreateContractCallPayload
    \/ CallIsSuccessfulTx
    \/ CallIsPendingTx
    \/ CallIsFailedTx
    \/ Return

Spec == Init /\ [][Next]_vars

(***************************************************************************)
(* The caller of formatRelativeTime, with the clock running.               *)
(***************************************************************************)
\* time passes
Tick ==
    /\ now.k - NOW_AT_LOAD.k < MaxTicks * TickSeconds
    /\ now' = Number(now.k + TickSeconds, now.r)
    /\ UNCHANGED <<op, args, ret, ADDRESS_VERSION, noted>>

CallFormatRelativeTime ==
    /\ op = "none"
    /\ \E t \in Timestamps :
          /\ op' = "formatRelativeTime"
          /\ args' = [timestamp |-> t]
          /\ ret' = formatRelativeTime(t, now)
    /\ UNCHANGED <<ADDRESS_VERSION, now, noted>>

\* the caller writes down the argument and the result of the call
Note ==
    /\ op = "formatRelativeTime"
    /\ noted' = [k |-> "note", timestamp |-> args.timestamp, result |-> ret]
    /\ UNCHANGED <<op, args, ret, ADDRESS_VERSION, now>>

ClockNext ==
    \/ Tick
    \/ CallFormatRelativeTime
    \/ Note
    \/ Return

ClockSpec == Init /\ [][ClockNext]_vars

(***************************************************************************)
(* The address codec and classifier: properties.                           *)
(***************************************************************************)
\* the four prefixes, stated apart from the code's test
StartsWithKnownPrefix(s) ==
    \E p \in {<<"S", "P">>, <<"S", "T">>, <<"S", "M">>, <<"S", "N">>} :
        Len(s) >= 2 /\ s[1] = p[1] /\ s[2] = p[2]

\* C1: isValidStacksAddress returns a boolean; it returns false for every
\* input that is not a string, is empty or does not begin with SP, ST, SM or
\* SN (case-sensitive), and it returns true only when, in addition, the
\* checksum decode of the address succeeds.
C1_ValidateFailsClosed ==
    op = "isValidStacksAddress" =>
        LET a == args.address
            malformed == ~IsString(a) \/ Len(a.s) = 0 \/ ~StartsWithKnownPrefix(a.s)
        IN  /\ ret.k = "bool"
            /\ malformed => ret.b = FALSE
            /\ ret.b = TRUE => ~malformed /\ ~Throws(c32addressDecode(a))

\* a string that decodes, rejected for its prefix alone
C1_Witness ==
    /\ op = "isValidStacksAddress"
    /\ IsString(args.address)
    /\ ~StartsWithKnownPrefix(args.address.s)
    /\ ~Throws(c32addressDecode(args.address))
    /\ ret = Bool(FALSE)

\* C2: for every input string on which isValidStacksAddress returns false,
\* parseStacksAddress returns null.
C2_ParseRejectsWhatValidateRejects ==
    (/\ op = "parseStacksAddress"
     /\ IsString(args.address)
     /\ isValidStacksAddress(args.address) = Bool(FALSE))
        => ret = Null

\* C3: isValidStacksAddress, parseStacksAddress, getNetworkFromAddress and
\* addressesEqual never throw, whatever the input.
C3_AddressEntryPointsNeverThrow ==
    op \in {"isValidStacksAddress", "parseStacksAddress",
            "getNetworkFromAddress", "addressesEqual"}
        => ~Throws(ret)

\* the version table of the specification
C4_Table(version) ==
    CASE version = 22 -> [k |-> "class", network |-> "mainnet", type |-> "single-sig"]
      [] version = 20 -> [k |-> "class", network |-> "mainnet", type |-> "multi-sig"]
      [] version = 26 -> [k |-> "class", network |-> "testnet", type |-> "single-sig"]
      [] version = 21 -> [k |-> "class", network |-> "testnet", type |-> "multi-sig"]
      [] OTHER -> [k |-> "null"]

\* C4: the classification of a version byte is an exact match on the table
\* 22, 20, 26, 21; every other byte 0..255 yields null, and two known
\* versions never share a (network, type) pair.
C4_ClassifyExactMatch ==
    op = "classify" =>
        /\ ret = C4_Table(args.version)
        /\ \A v \in {22, 20, 26, 21} \ {args.version} :
               ret # Null => Classify(v) # ret

\* a byte next to a known version is not classified
C4_Witness ==
    /\ op = "classify"
    /\ args.version = 23
    /\ ret = Null

\* C5: parseStacksAddress returns null exactly when decoding fails or the
\* decoded version is not one of the four known ones; otherwise it returns
\* the complete record: the input as address, the decoded version and
\* hash160, the table's network and type, isValid true.
C5_ParseComposesDecodeAndClassify ==
    op = "parseStacksAddress" =>
        LET d == c32addressDecode(args.address)
            unknown == IF Throws(d) THEN TRUE ELSE d.version \notin {22, 20, 26, 21}
        IN  /\ (ret = Null) <=> unknown
            /\ ~unknown =>
                 ret = [k |-> "info", address |-> args.address,
                        network |-> C4_Table(d.version).network,
                        type |-> C4_Table(d.version).type,
                        version |-> d.version, hash160 |-> d.hash160,
                        isValid |-> TRUE]

\* an address spelled in lower case after its prefix, parsed to a record
C5_Witness ==
    /\ op = "parseStacksAddress"
    /\ ret # Null
    /\ ret.network = "testnet"
    /\ ret.type = "multi-sig"
    /\ args.address.s # c32normalize(args.address.s)

\* the version the specification gives a network and a type
C6_Version(network, type) ==
    CASE network = "mainnet" /\ type = "single-sig" -> 22
      [] network = "mainnet" /\ type = "multi-sig" -> 20
      [] network = "testnet" /\ type = "single-sig" -> 26
      [] network = "testnet" /\ type = "multi-sig" -> 21

\* what parseStacksAddress makes of the address returned by the last call,
\* a call of hash160ToAddress
C6_Decoded == parseStacksAddress(Str(ret.s))

\* C6 as claimed: for every 20-byte hash and each network and type, encoding
\* with hash160ToAddress and decoding with parseStacksAddress returns
\* exactly the original version and hash, and the network and type given.
C6_EncodeDecodeExact ==
    (op = "hash160ToAddress" /\ IsHash160Hex(args.hash160)) =>
        /\ ~Throws(ret)
        /\ C6_Decoded # Null
        /\ C6_Decoded.version = C6_Version(args.network, args.type)
        /\ C6_Decoded.hash160 = args.hash160
        /\ C6_Decoded.network = args.network
        /\ C6_Decoded.type = args.type

\* C6 as amended: the hash comes back as the lower-case hex of the same 20
\* bytes, which is the original string only when that was lower-case.
C6_EncodeDecodeLowerCase ==
    (op = "hash160ToAddress" /\ IsHash160Hex(args.hash160)) =>
        /\ ~Throws(ret)
        /\ C6_Decoded # Null
        /\ C6_Decoded.version = C6_Version(args.network, args.type)
        /\ C6_Decoded.hash160 = toLowerCase(args.hash160)
        /\ IsHash160Hex(C6_Decoded.hash160)
        /\ C6_Decoded.network = args.network
        /\ C6_Decoded.type = args.type

\* a hash given in upper-case hex, encoded and decoded
C6_Witness ==
    /\ op = "hash160ToAddress"
    /\ IsHash160Hex(args.hash160)
    /\ args.hash160 # toLowerCase(args.hash160)
    /\ args.type = "multi-sig"
    /\ ~Throws(ret)
    /\ C6_Decoded # Null

\* the last call parsed a valid mainnet single-sig address
C7_ParsedValidMainnetSingleSig ==
    /\ op = "parseStacksAddress"
    /\ isValidStacksAddress(args.address) = Bool(TRUE)
    /\ ret # Null
    /\ ret.network = "mainnet"
    /\ ret.type = "single-sig"

\* the parsed record of the last call, encoded again
C7_Reencoded == hash160ToAddress(ret.hash160, ret.network, ret.type)

\* C7 as claimed: for every valid mainnet single-sig address string,
\* decoding and re-encoding yields the identical string.
C7_DecodeEncodeIdentical ==
    C7_ParsedValidMainnetSingleSig => C7_Reencoded = StrResult(args.address.s)

\* C7 as amended: re-encoding yields the c32-normalised spelling of the
\* string (upper case, O read as 0, I and L read as 1), the identical string
\* exactly when it is spelled that way already; when the decoded payload is
\* not 20 bytes long, hash160ToAddress throws.
C7_DecodeEncodeNormalised ==
    C7_ParsedValidMainnetSingleSig =>
        IF Len(ret.hash160) = 40
        THEN /\ C7_Reencoded = StrResult(c32normalize(args.address.s))
             /\ (C7_Reencoded = StrResult(args.address.s))
                    <=> (args.address.s = c32normalize(args.address.s))
        ELSE Throws(C7_Reencoded)

\* a valid mainnet single-sig address in another spelling, re-encoded
C7_Witness ==
    /\ C7_ParsedValidMainnetSingleSig
    /\ Len(ret.hash160) = 40
    /\ args.address.s # c32normalize(args.address.s)
    /\ C7_Reencoded = StrResult(c32normalize(args.address.s))

\* the prefix the specification gives a network and a type
C8_Prefix(network, type) ==
    CASE network = "mainnet" /\ type = "single-sig" -> <<"S", "P">>
      [] network = "mainnet" /\ type = "multi-sig" -> <<"S", "M">>
      [] network = "testnet" /\ type = "single-sig" -> <<"S", "T">>
      [] network = "testnet" /\ type = "multi-sig" -> <<"S", "N">>

\* C8: for every known version and every 20-byte hash, the address that
\* hash160ToAddress returns starts with the prefix of its version and
\* passes isValidStacksAddress.
C8_EncodedIsValid ==
    (op = "hash160ToAddress" /\ IsHash160Hex(args.hash160)) =>
        /\ ~Throws(ret)
        /\ SubSeq(ret.s, 1, 2) = C8_Prefix(args.network, args.type)
        /\ isValidStacksAddress(Str(ret.s)) = Bool(TRUE)

\* a testnet multi-sig address encoded, SN in front, and validated
C8_Witness ==
    /\ op = "hash160ToAddress"
    /\ args.network = "testnet"
    /\ args.type = "multi-sig"
    /\ ~Throws(ret)
    /\ SubSeq(ret.s, 1, 2) = <<"S", "N">>
    /\ isValidStacksAddress(Str(ret.s)) = Bool(TRUE)

\* C9: every string that isValidStacksAddress accepts, and every record that
\* parseStacksAddress returns, carries a hash160 of exactly 20 bytes (40 hex
\* digits).
C9_PayloadIs20Bytes ==
    /\ (op = "isValidStacksAddress" /\ ret = Bool(TRUE))
           => Len(c32addressDecode(args.address).hash160) = 40
    /\ (op = "parseStacksAddress" /\ ret # Null)
           => Len(ret.hash160) = 40

\* the last e characters of s
C10_Last(s, e) == SubSeq(s, Len(s) - e + 1, Len(s))

\* C10: for every address string and every startChars, endChars >= 0,
\* shortenAddress returns the input when its length is at most
\* startChars + endChars + 3, and otherwise the first startChars characters,
\* '...', and the last endChars characters: startChars + endChars + 3
\* characters in all.
C10_ShortenAddress ==
    (op = "shortenAddress" /\ IsString(args.address)) =>
        LET s == args.address.s
        IN  IF Len(s) <= args.startChars + args.endChars + 3
            THEN ret = Value(args.address)
            ELSE /\ ret = Value(Str(SubSeq(s, 1, args.startChars) \o <<".", ".", ".">>
                                    \o C10_Last(s, args.endChars)))
                 /\ Len(ret.v.s) = args.startChars + args.endChars + 3

\* the first two characters of s (all of s when it is shorter)
C11_FirstTwo(s) == SubSeq(s, 1, IF Len(s) < 2 THEN Len(s) ELSE 2)

\* C11: getNetworkFromAddress depends only on the first two characters of
\* its input string: 'mainnet' exactly for SP and SM, 'testnet' exactly for
\* ST and SN, null for every other string, whether or not the rest is a
\* valid checksummed address; no string is both mainnet and testnet.
C11_NetworkByPrefixOnly ==
    (op = "getNetworkFromAddress" /\ IsString(args.address)) =>
        LET two == C11_FirstTwo(args.address.s)
        IN  /\ (ret = [k |-> "string", s |-> "mainnet"])
                   <=> (two \in {<<"S", "P">>, <<"S", "M">>})
            /\ (ret = [k |-> "string", s |-> "testnet"])
                   <=> (two \in {<<"S", "T">>, <<"S", "N">>})
            /\ (ret = [k |-> "null"])
                   <=> (two \notin {<<"S", "P">>, <<"S", "M">>, <<"S", "T">>, <<"S", "N">>})
            /\ \A t \in AddressStrings :
                   C11_FirstTwo(t) = two => getNetworkFromAddress(Str(t)) = ret
            /\ ~(/\ isMainnetAddress(args.address) = Bool(TRUE)
                 /\ isTestnetAddress(args.address) = Bool(TRUE))

\* a string that starts with SN and is no valid address is testnet
C11_Witness ==
    /\ op = "getNetworkFromAddress"
    /\ IsString(args.address)
    /\ C11_FirstTwo(args.address.s) = <<"S", "N">>
    /\ isValidStacksAddress(args.address) = Bool(FALSE)
    /\ ret = [k |-> "string", s |-> "testnet"]

\* s and t have the same length and differ at most in the case of letters
C12_EqualIgnoringCase(s, t) ==
    /\ Len(s) = Len(t)
    /\ \A i \in 1..Len(s) :
           \/ s[i] = t[i]
           \/ \E j \in 1..26 : {s[i], t[i]} = {LOWER[j], UPPER[j]}

\* C12: addressesEqual(a, b) is true exactly when both inputs are non-empty
\* strings that are equal ignoring letter case; it is false whenever either
\* input is empty (the empty string equals nothing, not even itself), and
\* it is symmetric.
C12_AddressesEqualIgnoringCase ==
    op = "addressesEqual" =>
        LET a == args.address1
            b == args.address2
            nonEmptyStrings == /\ IsString(a) /\ Len(a.s) > 0
                               /\ IsString(b) /\ Len(b.s) > 0
        IN  /\ (ret = [k |-> "bool", b |-> TRUE])
                   <=> (nonEmptyStrings /\ C12_EqualIgnoringCase(a.s, b.s))
            /\ ((IsString(a) /\ Len(a.s) = 0) \/ (IsString(b) /\ Len(b.s) = 0))
                   => ret = [k |-> "bool", b |-> FALSE]
            /\ addressesEqual(b, a) = ret

\* two different spellings of one address are equal
C12_Witness ==
    /\ op = "addressesEqual"
    /\ IsString(args.address1)
    /\ IsString(args.address2)
    /\ args.address1 # args.address2
    /\ Len(args.address1.s) = 41
    /\ ret = [k |-> "bool", b |-> TRUE]

\* C13: every exported function is deterministic: two calls of the same
\* function with the same arguments return the same result, no matter when
\* the calls are made or which calls happened in between; formatRelativeTime
\* is one of the functions covered.
C13_SameArgumentsSameResult ==
    (/\ op = "formatRelativeTime"
     /\ noted # Null
     /\ noted.timestamp = args.timestamp)
        => ret = noted.result

\* what a call returns when it is the only call ever made: the version
\* table is the one the module was loaded with
C14_Alone(f, a) ==
    CASE f = "isValidStacksAddress" -> isValidStacksAddress(a.address)
      [] f = "isMainnetAddress" -> isMainnetAddress(a.address)
      [] f = "isTestnetAddress" -> isTestnetAddress(a.address)
      [] f = "getNetworkFromAddress" -> getNetworkFromAddress(a.address)
      [] f = "parseStacksAddress" ->
            LET d == c32addressDecode(a.address)
            IN  IF Throws(d) THEN [k |-> "null"]
                ELSE IF C4_Table(d.version) = [k |-> "null"] THEN [k |-> "null"]
                ELSE [k |-> "info", address |-> a.address,
                      network |-> C4_Table(d.version).network,
                      type |-> C4_Table(d.version).type,
                      version |-> d.version, hash160 |-> d.hash160,
                      isValid |-> TRUE]
      [] f = "classify" -> C4_Table(a.version)
      [] f = "shortenAddress" -> shortenAddress(a.address, a.startChars, a.endChars)
      [] f = "hash160ToAddress" -> c32address(C6_Version(a.network, a.type), a.hash160)
      [] f = "addressesEqual" -> addressesEqual(a.address1, a.address2)

\* C14: the address operations keep no state: after any sequence of calls
\* the version table ADDRESS_VERSION is the one the module was loaded with,
\* and each call has returned what it would return if it were the only call
\* ever made (its arguments are passed by value and stay what they were).
C14_AddressOperationsKeepNoState ==
    /\ ADDRESS_VERSION = [MAINNET_SINGLE_SIG |-> 22, MAINNET_MULTI_SIG |-> 20,
                          TESTNET_SINGLE_SIG |-> 26, TESTNET_MULTI_SIG |-> 21]
    /\ op \in {"isValidStacksAddress", "isMainnetAddress", "isTestnetAddress",
               "getNetworkFromAddress", "parseStacksAddress", "classify",
               "shortenAddress", "hash160ToAddress", "addressesEqual"}
           => ret = C14_Alone(op, args)

\* a testnet multi-sig address parsed, the table still as loaded
C14_Witness ==
    /\ op = "parseStacksAddress"
    /\ ret # Null
    /\ ret.version = 21
    /\ ret.network = "testnet"
    /\ ADDRESS_VERSION.TESTNET_MULTI_SIG = 21
    /\ ADDRESS_VERSION.MAINNET_SINGLE_SIG = 22

\* the UTF-8 length of message m
C15_Utf8Length(m) == Len(TextEncode(m))

\* m with every surrogate that has no partner replaced by U+FFFD
C15_WellFormed(m) ==
    [i \in 1..Len(m) |->
        IF m[i] >= 55296 /\ m[i] <= 56319
        THEN IF i < Len(m) /\ m[i + 1] >= 56320 /\ m[i + 1] <= 57343 THEN m[i] ELSE 65533
        ELSE IF m[i] >= 56320 /\ m[i] <= 57343
        THEN IF i > 1 /\ m[i - 1] >= 55296 /\ m[i - 1] <= 56319 THEN m[i] ELSE 65533
        ELSE m[i]]

\* m without the NUL characters at its end
C15_WithoutTrailingNul(m) ==
    SubSeq(m, 1, Len(m) - LeadingCount([i \in 1..Len(m) |-> m[Len(m) + 1 - i]], 0))

\* what decoding makes of the encoded message m
C15_Decoded(m) == Trim(C15_WithoutTrailingNul(C15_WellFormed(m)))

\* the last call encoded, without padding, a message of 1 to 34 bytes
C15_EncodedFittingMessage ==
    /\ op = "encodeMemo"
    /\ ~args.padToLength
    /\ C15_Utf8Length(args.message) >= 1
    /\ C15_Utf8Length(args.message) <= 34

\* C15 as claimed: for every message that fits in a memo (UTF-8 length 1 to
\* 34), decodeMemo(encodeMemo(message, false)) is the original message.
C15_RoundTripExact ==
    C15_EncodedFittingMessage => decodeMemo(ret.s) = args.message

\* C15 as amended: decodeMemo(encodeMemo(message, false)) is the message
\* with unpaired surrogates replaced by U+FFFD, the NUL characters at its
\* end removed and then the white space at both ends trimmed: the original
\* message exactly when it has none of these.
C15_RoundTripTrimmed ==
    C15_EncodedFittingMessage =>
        /\ decodeMemo(ret.s) = C15_Decoded(args.message)
        /\ (decodeMemo(ret.s) = args.message)
               <=> (/\ C15_WellFormed(args.message) = args.message
                    /\ args.message[Len(args.message)] # 0
                    /\ ~IsWhiteSpace(args.message[1])
                    /\ ~IsWhiteSpace(args.message[Len(args.message)]))

\* a message of exactly 34 bytes in characters of several bytes comes back
C15_Witness ==
    /\ C15_EncodedFittingMessage
    /\ C15_Utf8Length(args.message) = 34
    /\ Len(args.message) < 34
    /\ decodeMemo(ret.s) = args.message

\* the byte that hex digits 2i - 1 and 2i of h spell
C16_ByteAt(h, i) == 16 * HexDigit(h[2 * i - 1]) + HexDigit(h[2 * i])

\* C16: for every message, encodeMemo(message, true) is exactly 68 hex
\* characters: the first 34 bytes of a longer message, a shorter one
\* right-padded with zeros; with padToLength false the result is an
\* even-length hex string of at most 68 characters, empty for the empty
\* message.
C16_EncodedLength ==
    op = "encodeMemo" =>
        LET bytes == TextEncode(args.message)
            kept == IF Len(bytes) > 34 THEN 34 ELSE Len(bytes)
        IN  /\ IsHexString(ret.s)
            /\ \A i \in 1..kept : C16_ByteAt(ret.s, i) = bytes[i]
            /\ IF args.padToLength
               THEN /\ Len(ret.s) = 68
                    /\ \A j \in (2 * kept + 1)..68 : ret.s[j] = "0"
               ELSE /\ Len(ret.s) = 2 * kept
                    /\ Len(ret.s) % 2 = 0
                    /\ Len(ret.s) <= 68
                    /\ (Len(args.message) = 0 => ret.s = <<>>)

\* a short message with a character of several bytes, padded to 68
C16_Witness ==
    /\ op = "encodeMemo"
    /\ args.padToLength
    /\ C15_Utf8Length(args.message) \in 2..33
    /\ Len(args.message) < C15_Utf8Length(args.message)
    /\ Len(ret.s) = 68
    /\ ret.s[68] = "0"

\* C17: decodeMemo ignores a leading '0x' and trailing zero bytes: for every
\* even-length hex string h and every k >= 0, decodeMemo('0x' + h),
\* decodeMemo(h with k '00' bytes added) and decodeMemo(h) are equal; hence
\* decodeMemo(encodeMemo(m, true)) = decodeMemo(encodeMemo(m, false)).
C17_PrefixAndPaddingIgnored ==
    /\ (op = "decodeMemo" /\ IsHexString(args.hex) /\ Len(args.hex) % 2 = 0) =>
           /\ decodeMemo(<<"0", "x">> \o args.hex) = ret.s
           /\ \A z \in 0..(MaxZeroBytes + 1) :
                  decodeMemo(args.hex \o [i \in 1..(2 * z) |-> "0"]) = ret.s
    /\ op = "encodeMemo" =>
           decodeMemo(encodeMemo(args.message, TRUE))
               = decodeMemo(encodeMemo(args.message, FALSE))

\* zero bytes inside are kept, those at the end are not
C17_Witness ==
    /\ op = "decodeMemo"
    /\ args.hex = <<"6", "1", "0", "0", "0", "0", "6", "2", "0", "0">>
    /\ ret.s = <<97, 0, 0, 98>>
    /\ decodeMemo(<<"0", "x">> \o args.hex \o <<"0", "0", "0", "0">>) = ret.s

\* C18: for every message and both values of the ellipsis flag truncateMemo
\* returns a string of at most 34 UTF-8 bytes (isValidMemo holds for it); a
\* message that fits is returned unchanged, one that does not fit is
\* returned as a prefix of the message, followed by '...' when ellipsis is
\* true.
C18_TruncatedFits ==
    op = "truncateMemo" =>
        LET m == args.message
            dots == IF args.ellipsis THEN <<46, 46, 46>> ELSE <<>>
        IN  /\ C15_Utf8Length(ret.s) <= 34
            /\ isValidMemo(ret.s)
            /\ C15_Utf8Length(m) <= 34 => ret.s = m
            /\ C15_Utf8Length(m) > 34 =>
                   \E n \in 0..(Len(m) - 1) : ret.s = SubSeq(m, 1, n) \o dots

\* a run of emoji cut inside a surrogate pair: 31 bytes and the ellipsis
C18_Witness ==
    /\ op = "truncateMemo"
    /\ args.ellipsis
    /\ C15_Utf8Length(args.message) > 34
    /\ C15_Utf8Length(ret.s) = 34
    /\ ret.s[Len(ret.s) - 3] >= 55296
    /\ ret.s[Len(ret.s) - 3] <= 56319

\* the prefix string of a key, as the source lists them
C19_Prefix(key) ==
    CASE key = "EXCHANGE_ID" -> <<69, 88, 58>>
      [] key = "INVOICE" -> <<73, 78, 86, 58>>
      [] key = "ORDER" -> <<79, 82, 68, 58>>
      [] key = "TIP" -> <<84, 73, 80, 58>>
      [] key = "STACK" -> <<83, 84, 75, 58>>
      [] key = "BRIDGE" -> <<66, 82, 71, 58>>

\* memo m starts with one of the six prefixes
C19_Prefixed(m) ==
    \E key \in {"EXCHANGE_ID", "INVOICE", "ORDER", "TIP", "STACK", "BRIDGE"} :
        /\ Len(m) >= Len(C19_Prefix(key))
        /\ SubSeq(m, 1, Len(C19_Prefix(key))) = C19_Prefix(key)

\* a memo that starts with none of the prefixes parses to null and itself
C19_Unprefixed ==
    (op = "parsePrefixedMemo" /\ ~C19_Prefixed(args.memo))
        => ret = [k |-> "parsed", prefix |-> JsNull, content |-> args.memo]

\* C19 as claimed: for every key of MEMO_PREFIXES and every content,
\* parsePrefixedMemo(createPrefixedMemo(key, content)) returns that key and
\* that content; a memo that starts with none of the known prefixes parses
\* to prefix null and content equal to the whole memo.
C19_PrefixRoundTripExact ==
    /\ op = "createPrefixedMemo" =>
           parsePrefixedMemo(ret.s)
               = [k |-> "parsed", prefix |-> [t |-> "key", key |-> args.prefix],
                  content |-> args.content]
    /\ C19_Unprefixed

\* C19 as amended: the key comes back for every content; the content comes
\* back when prefix and content together fit in 34 UTF-8 bytes, and
\* otherwise its longest leading part that fits with the prefix.
C19_PrefixRoundTripFitted ==
    /\ op = "createPrefixedMemo" =>
           LET prefix == C19_Prefix(args.prefix)
               content == args.content
               back == parsePrefixedMemo(ret.s)
               fits(n) == C15_Utf8Length(prefix \o SubSeq(content, 1, n)) <= 34
           IN  /\ back.prefix = [t |-> "key", key |-> args.prefix]
               /\ \E n \in 0..Len(content) :
                      /\ back.content = SubSeq(content, 1, n)
                      /\ fits(n)
                      /\ \A l \in (n + 1)..Len(content) : ~fits(l)
               /\ fits(Len(content)) <=> back.content = content
    /\ C19_Unprefixed

\* a content too long for the memo comes back cut
C19_Witness ==
    /\ op = "createPrefixedMemo"
    /\ args.prefix = "INVOICE"
    /\ C15_Utf8Length(args.content) > 30
    /\ Len(parsePrefixedMemo(ret.s).content) < Len(args.content)
    /\ Len(parsePrefixedMemo(ret.s).content) > 0
    /\ parsePrefixedMemo(ret.s).prefix = [t |-> "key", key |-> "INVOICE"]

\* C20: getCycleForBlock(b, g) is 0 for every block before genesis and
\* floor((b - g) / 2100) for every block at or after it; getBlockForCycle(c,
\* g) is g + 2100 * c; the result of getCycleForBlock is never negative and
\* never decreases as b grows.
C20_CycleArithmetic ==
    /\ op = "getCycleForBlock" =>
           LET b == args.blockHeight
               g == args.genesisBlock
           IN  /\ b < g => ret.v = 0
               /\ b >= g => (2100 * ret.v <= b - g /\ b - g < 2100 * (ret.v + 1))
               /\ ret.v >= 0
               /\ \A d \in 0..4200 : getCycleForBlock(b + d, g) >= ret.v
    /\ op = "getBlockForCycle" =>
           ret.v = args.genesisBlock + 2100 * args.cycleNumber

\* the last block of cycle 1 and the block before genesis
C20_Witness ==
    /\ op = "getCycleForBlock"
    /\ args.genesisBlock = 666050
    /\ args.blockHeight = 666050 + 4199
    /\ ret.v = 1
    /\ getCycleForBlock(666049, args.genesisBlock) = 0

(***************************************************************************)
(* The stacking cycles.                                                    *)
(***************************************************************************)
\* what getCycleInfo(c, b, g) reports of the blocks of cycle c
C21_Blocks ==
    op = "getCycleInfo" =>
        /\ ret.startBlock = args.genesisBlock + 2100 * args.cycleNumber
        /\ ret.endBlock = ret.startBlock + 2099
        /\ ret.isActive <=> (/\ ret.startBlock <= args.currentBlock
                             /\ args.currentBlock <= ret.endBlock)

\* C21 as stated: getCycleInfo(c, b, g) reports startBlock = g + 2100 * c,
\* endBlock = startBlock + 2099 and isActive exactly when startBlock <= b <=
\* endBlock; for every current block b the cycle that getCycleForBlock(b, g)
\* returns is reported active at b, and no other cycle is.
C21_ActiveIsTheCycleOfTheBlock ==
    /\ C21_Blocks
    /\ op = "getCycleInfo" =>
           (ret.isActive <=>
               args.cycleNumber = getCycleForBlock(args.currentBlock, args.genesisBlock))

\* C21, amended: the blocks and isActive are as stated; for every current
\* block b at or after genesis the cycle that getCycleForBlock(b, g) returns
\* is reported active at b and no other cycle is; for a block before
\* genesis getCycleForBlock returns 0 and no cycle from 0 on is reported
\* active.
C21_ActiveFromGenesisOn ==
    /\ C21_Blocks
    /\ op = "getCycleInfo" =>
           LET b == args.currentBlock
               g == args.genesisBlock
           IN  /\ b >= g => (ret.isActive <=> args.cycleNumber = getCycleForBlock(b, g))
               /\ b < g => /\ getCycleForBlock(b, g) = 0
                           /\ args.cycleNumber >= 0 => ~ret.isActive

\* the test's call, getCycleInfo(0, GENESIS + 100, GENESIS), and the block
\* before genesis, whose cycle by getCycleForBlock is not active
C21_Witness ==
    /\ op = "getCycleInfo"
    /\ args = [cycleNumber |-> 0, currentBlock |-> 666150, genesisBlock |-> 666050]
    /\ ret.isActive
    /\ ret.startBlock = 666050
    /\ ~getCycleInfo(getCycleForBlock(666049, 666050), 666049, 666050).isActive

(***************************************************************************)
(* BNS names.                                                              *)
(***************************************************************************)
\* the characters a-z and 0-9
C22_LettersAndDigits ==
    {"a","b","c","d","e","f","g","h","i","j","k","l","m","n","o","p","q","r",
     "s","t","u","v","w","x","y","z","0","1","2","3","4","5","6","7","8","9"}

\* 1 to 48 characters of a-z, 0-9 and '-', not starting or ending with '-'
C22_Name(s) ==
    /\ Len(s) >= 1
    /\ Len(s) <= 48
    /\ \A i \in 1..Len(s) : s[i] \in C22_LettersAndDigits \cup {"-"}
    /\ s[1] # "-"
    /\ s[Len(s)] # "-"

\* 1 to 20 characters of a-z and 0-9
C22_Namespace(s) ==
    /\ Len(s) >= 1
    /\ Len(s) <= 20
    /\ \A i \in 1..Len(s) : s[i] \in C22_LettersAndDigits

\* s is a name, a dot and a namespace
C22_NameDotNamespace(s, name, namespace) == s = name \o <<".">> \o namespace

\* the input after lower-casing and trimming
C22_Normal(fullName) == JsTrim(toLowerCase(fullName.s))

\* exactly two dot-separated parts, a valid name and a valid namespace
C22_TwoValidParts(s) ==
    \E i \in 1..Len(s) :
        /\ s[i] = "."
        /\ \A j \in 1..Len(s) : s[j] = "." => j = i
        /\ C22_Name(SubSeq(s, 1, i - 1))
        /\ C22_Namespace(SubSeq(s, i + 1, Len(s)))

\* C22: parseBnsName(fullName) reports isValid exactly when the input, lower-
\* cased and trimmed, is a valid name, a dot and a valid namespace, with no
\* other dot; when valid, the returned name and namespace are those two
\* parts; isValidFullBnsName agrees with it on every input.
C22_ParseBnsName ==
    /\ op = "parseBnsName" =>
           /\ ret.isValid <=> (/\ IsString(args.fullName)
                               /\ C22_TwoValidParts(C22_Normal(args.fullName)))
           /\ ret.isValid =>
                  /\ C22_NameDotNamespace(C22_Normal(args.fullName), ret.name, ret.namespace)
                  /\ C22_Name(ret.name)
                  /\ C22_Namespace(ret.namespace)
    /\ op = "isValidFullBnsName" =>
           /\ ret.b <=> (/\ IsString(args.fullName)
                         /\ C22_TwoValidParts(C22_Normal(args.fullName)))
           /\ ret.b = parseBnsName(args.fullName).isValid

\* '\t MyName.STX' is valid, with name 'myname' and namespace 'stx', and a
\* one-character name is valid
C22_Witness ==
    /\ op = "parseBnsName"
    /\ args.fullName = Str(<<"\t", " ">> \o MIXED_CASE \o <<".">> \o NS_UPPER)
    /\ ret = [k |-> "parsedName", name |-> <<"m","y","n","a","m","e">>,
              namespace |-> <<"s","t","x">>, isValid |-> TRUE]
    /\ parseBnsName(Str(<<"a", ".", "b", "t", "c">>)).isValid

\* the price of a name is a bigint
C23_IsPrice(r) == r.k = "value"

\* C23: for a fixed namespace, estimateNamePrice never gives a longer name a
\* higher price than a shorter one, and a name of at most 3 characters is
\* priced strictly higher than a name of 9 or more characters.
C23_ShorterNamesCostMore ==
    op = "estimateNamePrice" =>
        /\ C23_IsPrice(ret)
        /\ \A longer \in PricedNames :
               LET other == estimateNamePrice(longer, args.namespace)
               IN  Len(longer) > Len(args.name) =>
                       /\ C23_IsPrice(other)
                       /\ other.v <= ret.v
                       /\ (Len(args.name) <= 3 /\ Len(longer) >= 9) => ret.v > other.v

\* the same ordering, for the namespaces whose price is a number
C23_ShorterNamesCostMoreWherePriced ==
    (op = "estimateNamePrice" /\ C23_IsPrice(ret)) =>
        \A longer \in PricedNames :
            LET other == estimateNamePrice(longer, args.namespace)
            IN  Len(longer) > Len(args.name) =>
                    /\ C23_IsPrice(other)
                    /\ other.v <= ret.v
                    /\ (Len(args.name) <= 3 /\ Len(longer) >= 9) => ret.v > other.v

(***************************************************************************)
(* Token amounts.                                                          *)
(***************************************************************************)
\* v is an integer passed as a bigint, as a number or as a decimal string
C24_IsIntegerForm(v) == \E n \in Amounts : v \in Forms(n)

\* the integer that v carries
C24_Integer(v) == CHOOSE n \in Amounts : v \in Forms(n)

\* -1, 0 or 1 as x is below, equal to or above y
C24_Sign(x, y) == IF x < y THEN -1 ELSE IF x = y THEN 0 ELSE 1

\* C24: compareTokenAmounts(a, b) is -1 when a < b, 0 when a = b and 1 when
\* a > b on the integer values of its arguments; the result is the same
\* whether an integer is passed as bigint, number or decimal string; and
\* compareTokenAmounts(a, b) = -compareTokenAmounts(b, a).
C24_ComparesIntegerValues ==
    (/\ op = "compareTokenAmounts"
     /\ C24_IsIntegerForm(args.a)
     /\ C24_IsIntegerForm(args.b)) =>
        /\ ret = Value(C24_Sign(C24_Integer(args.a), C24_Integer(args.b)))
        /\ \A a \in Forms(C24_Integer(args.a)), b \in Forms(C24_Integer(args.b)) :
               compareTokenAmounts(a, b) = ret
        /\ compareTokenAmounts(args.b, args.a) = Value(0 - ret.v)

\* the test's compareTokenAmounts('1000', 2000n) is -1, and 2000n against the
\* number 1000 is 1
C24_Witness ==
    /\ op = "compareTokenAmounts"
    /\ args = [a |-> Str(<<"1","0","0","0">>), b |-> BigIntOf(2000)]
    /\ ret = Value(-1)
    /\ compareTokenAmounts(BigIntOf(2000), Num(1000)) = Value(1)
    /\ compareTokenAmounts(Num(1000), Str(<<"1","0","0","0">>)) = Value(0)

(***************************************************************************)
(* Contract identifiers.                                                   *)
(***************************************************************************)
\* s contains no '.'
C25_NoDot(s) == \A i \in 1..Len(s) : s[i] # "."

\* the number of '.' in s
C25_Dots(s) == Cardinality({i \in 1..Len(s) : s[i] = "."})

\* C25: for every address and contract name that contain no '.',
\* parseContractId(buildContractId(address, name)) returns exactly {address,
\* contractName: name}; parseContractId returns null for every string that
\* does not consist of exactly two dot-separated parts.
C25_BuildThenParse ==
    /\ (/\ op = "buildContractId"
        /\ C25_NoDot(args.address)
        /\ C25_NoDot(args.contractName)) =>
           parseContractId(ret.s) =
               [k |-> "contractId", address |-> args.address,
                contractName |-> args.contractName]
    /\ (op = "parseContractId" /\ C25_Dots(args.contractId) # 1) => ret = Null

\* 'SP123.contract-name' is built and parsed back, and strings of three
\* parts and of one part parse to null
C25_Witness ==
    /\ op = "buildContractId"
    /\ args = [address |-> SP123, contractName |-> CONTRACT_NAME]
    /\ parseContractId(ret.s) =
           [k |-> "contractId", address |-> SP123, contractName |-> CONTRACT_NAME]
    /\ parseContractId(SP123 \o <<".">> \o CONTRACT_NAME \o <<".">> \o POX_4) = Null
    /\ parseContractId(SP123) = Null

(***************************************************************************)
(* Validation, parsing and the prefix agree.                               *)
(***************************************************************************)
\* what the two letters of a prefix stand for
C26_ByPrefix(s) ==
    CASE SubSeq(s, 1, 2) = <<"S", "P">> -> [network |-> "mainnet", type |-> "single-sig"]
      [] SubSeq(s, 1, 2) = <<"S", "M">> -> [network |-> "mainnet", type |-> "multi-sig"]
      [] SubSeq(s, 1, 2) = <<"S", "T">> -> [network |-> "testnet", type |-> "single-sig"]
      [] SubSeq(s, 1, 2) = <<"S", "N">> -> [network |-> "testnet", type |-> "multi-sig"]

\* C26: for every string on which isValidStacksAddress returns true,
\* parseStacksAddress returns a record, and its network is what
\* getNetworkFromAddress returns for the same string: SP and SM parse as
\* mainnet, ST and SN as testnet, P and T as single-sig, M and N as
\* multi-sig.
C26_ValidParsesAsItsPrefixSays ==
    (op = "isValidStacksAddress" /\ ret = Bool(TRUE)) =>
        LET parsed == parseStacksAddress(args.address)
        IN  /\ parsed # Null
            /\ parsed.k = "info"
            /\ StrResult(parsed.network) = getNetworkFromAddress(args.address)
            /\ parsed.network = C26_ByPrefix(args.address.s).network
            /\ parsed.type = C26_ByPrefix(args.address.s).type

\* a valid SN address parses as testnet multi-sig, and valid SP, SM and ST
\* addresses are among the inputs
C26_Witness ==
    /\ op = "isValidStacksAddress"
    /\ ret = Bool(TRUE)
    /\ startsWith(args.address.s, SN)
    /\ parseStacksAddress(args.address).network = "testnet"
    /\ parseStacksAddress(args.address).type = "multi-sig"
    /\ \A p \in {SP, SM, ST} :
           \E a \in AddressInputs :
               /\ isValidStacksAddress(a) = Bool(TRUE)
               /\ startsWith(a.s, p)

\* s is of the form 'address.name': one dot, something before it and
\* something after it
C27_AddressDotName(s) ==
    /\ C25_Dots(s) = 1
    /\ s[1] # "."
    /\ s[Len(s)] # "."

\* the part of s before its first dot
C27_BeforeDot(s) == SubSeq(s, 1, (CHOOSE i \in 1..Len(s) : s[i] = ".") - 1)

\* the part of s after its last dot
C27_AfterDot(s) == SubSeq(s, (CHOOSE i \in 1..Len(s) : s[i] = ".") + 1, Len(s))

\* C27: createContractCallPayload throws for every contractId that is not
\* of the form 'address.name' (exactly two non-empty dot-separated parts);
\* for every contractId of that form it returns contractAddress and
\* contractName equal to the two parts; it accepts a contractId exactly when
\* parseContractId returns a result with two non-empty components.
C27_AcceptsAddressDotNameOnly ==
    op = "createContractCallPayload" =>
        /\ ~C27_AddressDotName(args.contractId) => Throws(ret)
        /\ C27_AddressDotName(args.contractId) =>
               /\ ret.k = "payload"
               /\ ret.contractAddress = C27_BeforeDot(args.contractId)
               /\ ret.contractName = C27_AfterDot(args.contractId)
        /\ ~Throws(ret) <=>
               /\ parseContractId(args.contractId) # Null
               /\ parseContractId(args.contractId).address # <<>>
               /\ parseContractId(args.contractId).contractName # <<>>

\* b is the last block of a cycle of genesis block g
C28_LastBlockOfACycle(b, g) == b >= g /\ (b - g) % 2100 = 2099

\* the result is 0 exactly on the last block of a cycle, and it is the
\* distance to the endBlock of the cycle that getCycleForBlock assigns
C28_UntilEndOfAssignedCycle ==
    op = "getBlocksUntilCycleEnd" =>
        LET b == args.currentBlock
            g == args.genesisBlock
        IN  /\ ret.v = 0 <=> C28_LastBlockOfACycle(b, g)
            /\ ret.v = getCycleInfo(getCycleForBlock(b, g), b, g).endBlock - b

\* C28 as stated: for every current block height b, getBlocksUntilCycleEnd(b,
\* g) is between 0 and 2099, is 0 exactly on the last block of a cycle, and
\* equals getCycleInfo(getCycleForBlock(b, g), b, g).endBlock - b.
C28_BetweenZeroAndCycleLength ==
    /\ C28_UntilEndOfAssignedCycle
    /\ op = "getBlocksUntilCycleEnd" => (ret.v >= 0 /\ ret.v <= 2099)

\* C28, amended: the result is 0 exactly on the last block of a cycle and
\* equals getCycleInfo(getCycleForBlock(b, g), b, g).endBlock - b for every b;
\* it is between 0 and 2099 for every b at or after genesis, and it is
\* g + 2099 - b, which is more than 2099, for every b before genesis.
C28_BetweenZeroAndCycleLengthFromGenesisOn ==
    /\ C28_UntilEndOfAssignedCycle
    /\ op = "getBlocksUntilCycleEnd" =>
           LET b == args.currentBlock
               g == args.genesisBlock
           IN  /\ b >= g => (ret.v >= 0 /\ ret.v <= 2099)
               /\ b < g => (ret.v = g + 2099 - b /\ ret.v > 2099)

\* the last block of cycle 1 has 0 blocks left, and the block before
\* genesis has 2100
C28_Witness ==
    /\ op = "getBlocksUntilCycleEnd"
    /\ args = [currentBlock |-> 666050 + 4199, genesisBlock |-> 666050]
    /\ ret.v = 0
    /\ getBlocksUntilCycleEnd(666050, 666050) = 2099
    /\ getBlocksUntilCycleEnd(666049, 666050) = 2100

\* C29: for every cycle c >= 0 and genesis g, getCycleForBlock(
\* getBlockForCycle(c, g), g) = c; for every block b >= g,
\* getBlockForCycle(getCycleForBlock(b, g), g) <= b <
\* getBlockForCycle(getCycleForBlock(b, g) + 1, g); calculateUnlockBlock(s, l,
\* g) is the first block of cycle s + l.
C29_CycleRoundTrips ==
    /\ (op = "getBlockForCycle" /\ args.cycleNumber >= 0) =>
           getCycleForBlock(ret.v, args.genesisBlock) = args.cycleNumber
    /\ (op = "getCycleForBlock" /\ args.blockHeight >= args.genesisBlock) =>
           /\ getBlockForCycle(ret.v, args.genesisBlock) <= args.blockHeight
           /\ args.blockHeight < getBlockForCycle(ret.v + 1, args.genesisBlock)
    /\ op = "calculateUnlockBlock" =>
           /\ ret.v = args.genesisBlock + 2100 * (args.startCycle + args.lockPeriod)
           /\ getCycleForBlock(ret.v, args.genesisBlock) = args.startCycle + args.lockPeriod
           /\ getCycleForBlock(ret.v - 1, args.genesisBlock) = args.startCycle + args.lockPeriod - 1

\* the test's calculateUnlockBlock(5, 3, GENESIS) is getBlockForCycle(8,
\* GENESIS), and cycle 3 and the last block of cycle 2 round-trip
C29_Witness ==
    /\ op = "calculateUnlockBlock"
    /\ args = [startCycle |-> 5, lockPeriod |-> 3, genesisBlock |-> 666050]
    /\ ret.v = getBlockForCycle(8, 666050)
    /\ getCycleForBlock(getBlockForCycle(3, 666050), 666050) = 3
    /\ getBlockForCycle(getCycleForBlock(666050 + 6299, 666050), 666050) = 666050 + 4200

(***************************************************************************)
(* The status of a transaction.                                            *)
(***************************************************************************)
\* the predicates that return true for a status
C30_TrueOf(status) ==
    {p \in {"isSuccessfulTx", "isPendingTx", "isFailedTx"} :
        CASE p = "isSuccessfulTx" -> isSuccessfulTx(status)
          [] p = "isPendingTx" -> isPendingTx(status)
          [] p = "isFailedTx" -> isFailedTx(status)}

\* C30: for every status string at most one of isSuccessfulTx, isPendingTx
\* and isFailedTx returns true.
C30_AtMostOneStatus ==
    op \in {"isSuccessfulTx", "isPendingTx", "isFailedTx"} =>
        /\ ret.b <=> op \in C30_TrueOf(args.status)
        /\ ret.b => C30_TrueOf(args.status) = {op}
        /\ Cardinality(C30_TrueOf(args.status)) <= 1

\* 'abort_by_post_condition' is failed and neither successful nor pending;
\* 'pending' and 'success' are each true of one predicate, and
\* 'dropped_replace_by_fee' of none
C30_Witness ==
    /\ op = "isFailedTx"
    /\ args.status = "abort_by_post_condition"
    /\ ret = Bool(TRUE)
    /\ C30_TrueOf("pending") = {"isPendingTx"}
    /\ C30_TrueOf("success") = {"isSuccessfulTx"}
    /\ C30_TrueOf("dropped_replace_by_fee") = {}

=============================================================================
